---------------------------- MODULE Spec2Model ----------------------------
(***************************************************************************)
(* A model of koa-butterfly: the radix tree (Node), the StagedArray, the   *)
(* Router's registration (getNode, addMiddleware, addTerminator, use) and  *)
(* its dispatch (middlewareGeneratorRunner, middlewareGenerator,           *)
(* middlewareValueWrapper).                                                *)
(*                                                                         *)
(* Strings are sequences of one-character strings: "/ab" is                *)
(* <<"/", "a", "b">>.  Node objects live in a heap, `nodes`, and are named *)
(* by their index in it, so that object identity, aliasing and orphaned    *)
(* nodes are visible.                                                      *)
(***************************************************************************)
EXTENDS Integers, Sequences, FiniteSets, TLC

VARIABLES
    nodes,          \* heap of Node objects: [segment, children, data]
    strictSlashes,  \* Router.strictSlashes
    regs,           \* history: the registrations made so far
    created,        \* history: <<path, node>> for each findOrCreateNode call
    phase,          \* "idle" | "running" | "done" | "failed": the state of the dispatch
    ctx,            \* the Koa context: [method, path, hasParams, params]
    gens,           \* the middlewareGenerator instances alive, outermost first
    stack,          \* the awaiting callers, outermost first
    mode,           \* where control is: "pull" | "invoke" | "unwind" | "throw"
    pending,        \* the handlers of the yielded group still to be invoked
    log,            \* history: the handlers invoked, with what they observed
    outerNext,      \* history: the calls of the next passed to the router
    visited,        \* history: the nodes the generators handled
    stopped,        \* history: some handler returned without calling next
    detached,       \* [started, callers]: a handler called next() without awaiting it;
                    \* callers are the calls that awaited that handler, outermost first
    other           \* a second call of the router's middleware, with its own ctx, that is
                    \* suspended at an await: its phase, ctx, gens, stack, ... as above

vars == <<nodes, strictSlashes, regs, created, phase, ctx, gens, stack, mode,
          pending, log, outerNext, visited, stopped, detached, other>>

routerVars == <<nodes, strictSlashes, regs, created>>
dispatchVars == <<phase, ctx, gens, stack, mode, pending, log, outerNext,
                  visited, stopped, detached, other>>

-----------------------------------------------------------------------------
(* Bounds of the model.                                                    *)

\* Registrations made on one router.
MaxRegs == 3
\* findOrCreateNode calls made on one root.
MaxCalls == 4

-----------------------------------------------------------------------------
(* JavaScript values and string operations.                                *)

\* JavaScript's undefined, as a value no string of characters equals.
Undefined == <<"undefined">>

Min(a, b) == IF a <= b THEN a ELSE b
Max(a, b) == IF a >= b THEN a ELSE b

\* String.prototype.startsWith
StartsWith(s, p) == Len(p) <= Len(s) /\ SubSeq(s, 1, Len(p)) = p

\* String.prototype.endsWith
EndsWith(s, p) == Len(p) <= Len(s) /\ SubSeq(s, Len(s) - Len(p) + 1, Len(s)) = p

\* String.prototype.substr(from)
Substr(s, from) == SubSeq(s, Min(from, Len(s)) + 1, Len(s))

\* String.prototype.substr(from, length)
SubstrLen(s, from, length) == SubSeq(s, from + 1, Min(Len(s), from + length))

\* String.prototype.indexOf / Array.prototype.indexOf: zero based, -1 if absent
IndexOf(s, x) ==
    LET hits == {i \in 1..Len(s) : s[i] = x}
    IN  IF hits = {} THEN -1 ELSE (CHOOSE i \in hits : \A j \in hits : i <= j) - 1

\* Array.prototype.splice(start, deleteCount, ...items): the array afterwards
Splice(arr, start, deleteCount, items) ==
    LET len == Len(arr)
        s == IF start < 0 THEN Max(len + start, 0) ELSE Min(start, len)
        d == Min(Max(deleteCount, 0), len - s)
    IN  SubSeq(arr, 1, s) \o items \o SubSeq(arr, s + d + 1, len)

-----------------------------------------------------------------------------
(* StagedArray                                                             *)

\* new StagedArray()
EmptyStagedArray == [stagedData |-> <<>>, orderedStagedData |-> <<>>]

\* get orderedData
orderedData(sa) == sa.orderedStagedData

\* get length
length(sa) == Len(sa.stagedData)

\* Array.prototype.findIndex(([s]) => stage < s), zero based, -1 if none
FindIndexGreater(stagedData, stage) ==
    LET hits == {i \in 1..Len(stagedData) : stage < stagedData[i][1]}
    IN  IF hits = {} THEN -1 ELSE (CHOOSE i \in hits : \A j \in hits : i <= j) - 1

\* An addData that appends the data whatever the stage is
addDataAtEnd(sa, stage, data) ==
    [stagedData |-> sa.stagedData \o [i \in 1..Len(data) |-> <<stage, data[i]>>],
     orderedStagedData |-> sa.orderedStagedData \o data]

\* An addData that puts the data before what is there of the same stage
addDataBeforeEqual(sa, stage, data) ==
    LET hits == {i \in 1..Len(sa.stagedData) : stage <= sa.stagedData[i][1]}
        insertIndex == IF hits = {} THEN Len(sa.stagedData)
                       ELSE (CHOOSE i \in hits : \A j \in hits : i <= j) - 1
    IN  [stagedData |->
            Splice(sa.stagedData, insertIndex, 0, [i \in 1..Len(data) |-> <<stage, data[i]>>]),
         orderedStagedData |-> Splice(sa.orderedStagedData, insertIndex, 0, data)]

\* addData(stage, ...data)
addData(sa, stage, data) ==
    LET n == Len(sa.stagedData)
        insertIndex ==
            IF n = 0 THEN 0
            ELSE IF sa.stagedData[n][1] <= stage THEN n
            ELSE FindIndexGreater(sa.stagedData, stage)
        tuples == [i \in 1..Len(data) |-> <<stage, data[i]>>]
    IN  [stagedData |-> Splice(sa.stagedData, insertIndex, 0, tuples),
         orderedStagedData |-> Splice(sa.orderedStagedData, insertIndex, 0, data)]

\* Where a stable sort puts a tuple among already sorted ones: after the last
\* tuple whose stage is not greater.
RECURSIVE InsertStable(_, _)
InsertStable(sorted, t) ==
    IF sorted = <<>> THEN <<t>>
    ELSE IF sorted[Len(sorted)][1] - t[1] <= 0 THEN Append(sorted, t)
    ELSE Append(InsertStable(SubSeq(sorted, 1, Len(sorted) - 1), t), sorted[Len(sorted)])

\* Array.prototype.sort(([a], [b]) => a - b), which is stable
RECURSIVE SortByStage(_)
SortByStage(tuples) ==
    IF tuples = <<>> THEN <<>>
    ELSE InsertStable(SortByStage(SubSeq(tuples, 1, Len(tuples) - 1)), tuples[Len(tuples)])

RECURSIVE ConcatStagedData(_)
ConcatStagedData(stagedArrays) ==
    IF stagedArrays = <<>> THEN <<>>
    ELSE Head(stagedArrays).stagedData \o ConcatStagedData(Tail(stagedArrays))

\* A sortWith that lets the other arrays win the ties
sortWithOthersFirst(sa, stagedArrays) ==
    IF Len(stagedArrays) = 0 THEN orderedData(sa)
    ELSE LET orderedTuples == SortByStage(ConcatStagedData(stagedArrays) \o sa.stagedData)
         IN  [i \in 1..Len(orderedTuples) |-> orderedTuples[i][2]]

\* sortWith(stagedArrays)
sortWith(sa, stagedArrays) ==
    IF Len(stagedArrays) = 0 THEN orderedData(sa)
    ELSE LET orderedTuples == SortByStage(sa.stagedData \o ConcatStagedData(stagedArrays))
         IN  [i \in 1..Len(orderedTuples) |-> orderedTuples[i][2]]

\* static sort(stagedArrays)
StagedArraySort(stagedArrays) ==
    IF Len(stagedArrays) = 0 THEN <<>>
    ELSE sortWith(Head(stagedArrays), Tail(stagedArrays))

-----------------------------------------------------------------------------
(* RouterNodeData and Node                                                 *)

\* SpecialMethod
MIDDLEWARE == "\\x00middleware"
ALL == "\\x00all"

\* new MethodData()
NewMethodData == [middleware |-> EmptyStagedArray, terminators |-> EmptyStagedArray]

\* new RouterNodeData(): no method has data yet, no parameter routes
NewRouterNodeData == [methodData |-> <<>>, lateParams |-> EmptyStagedArray]

\* RouterNodeData.methodData.has(method)
HasMethodData(data, method) == method \in DOMAIN data.methodData

\* getMethodData(method, true): the node data with the method's data present
WithMethodData(data, method) ==
    IF HasMethodData(data, method) THEN data
    ELSE [data EXCEPT !.methodData =
            [m \in (DOMAIN data.methodData) \cup {method} |->
                IF m = method THEN NewMethodData ELSE data.methodData[m]]]

\* A getMethodData that creates the method's data whatever createIfMissing is
getMethodDataCreating(data, method, createIfMissing) == WithMethodData(data, method)

\* getMethodData(method, createIfMissing): the node data after the call
getMethodData(data, method, createIfMissing) ==
    IF createIfMissing THEN WithMethodData(data, method) ELSE data

\* (getMethodData(method)?.terminators.length || 0)
TerminatorsLength(data, method) ==
    IF HasMethodData(data, method) THEN length(data.methodData[method].terminators) ELSE 0

\* (getMethodData(method)?.middleware.length || 0)
MiddlewareLength(data, method) ==
    IF HasMethodData(data, method) THEN length(data.methodData[method].middleware) ELSE 0

\* The segment of the root Node
RootSegment == <<"<root>">>

\* new Node(dataCreator, segment)
NewNode(segment) == [segment |-> segment, children |-> <<>>, data |-> NewRouterNodeData]

\* isLeaf()
isLeaf(ns, node) == Len(ns[node].children) = 0

\* static commonLength(a, b)
commonLength(a, b) ==
    LET maxChars == Min(Len(a), Len(b))
        diffs == {i \in 1..maxChars : a[i] # b[i]}
    IN  IF diffs = {} THEN maxChars
        ELSE (CHOOSE i \in diffs : \A j \in diffs : i <= j) - 1

\* A walk that never enters a child
FirstMatchingChildNone(ns, node, remainingPath) == 0

\* The first child, in children order, whose segment the path starts with
\* (the for loop of findAll and of nodeIterator); 0 if there is none.
FirstMatchingChild(ns, node, remainingPath) ==
    LET ch == ns[node].children
        hits == {i \in 1..Len(ch) : StartsWith(remainingPath, ns[ch[i]].segment)}
    IN  IF hits = {} THEN 0 ELSE ch[CHOOSE i \in hits : \A j \in hits : i <= j]

\* The body of the for loop of findAll for the child whose segment matched
RECURSIVE FindWalk(_, _, _, _)
FindWalkInto(ns, child, remainingPath, output) ==
    IF Len(remainingPath) = Len(ns[child].segment)
    THEN [node |-> child, remainingPath |-> <<>>,
          output |-> Append(output, child), returned |-> TRUE]
    ELSE FindWalk(ns, child, Substr(remainingPath, Len(ns[child].segment)),
                  Append(output, child))

\* The while loop of findAll: descends while a child's segment is a prefix.
\* returned is TRUE when the loop returned the output (the path was consumed).
FindWalk(ns, node, remainingPath, output) ==
    IF isLeaf(ns, node) \/ Len(remainingPath) = 0
          \/ FirstMatchingChild(ns, node, remainingPath) = 0
    THEN [node |-> node, remainingPath |-> remainingPath, output |-> output, returned |-> FALSE]
    ELSE FindWalkInto(ns, FirstMatchingChild(ns, node, remainingPath), remainingPath, output)

\* The first child sharing a prefix with the path (bestNode); 0 if none.
BestNode(ns, node, remainingPath) ==
    LET ch == ns[node].children
        hits == {i \in 1..Len(ch) : commonLength(remainingPath, ns[ch[i]].segment) > 0}
    IN  IF hits = {} THEN 0 ELSE ch[CHOOSE i \in hits : \A j \in hits : i <= j]

\* The index the split hands to splice: this.children.indexOf(bestNode),
\* looked up in the children of the node findAll was called on.
SplitIndex(ns, this, node, bestNode) == IndexOf(ns[this].children, bestNode)

\* findAll when no child shares a prefix with the remaining path: a new child
FindAllNewChild(ns, w) ==
    [found |-> TRUE, output |-> Append(w.output, Len(ns) + 1),
     ns |-> [Append(ns, NewNode(w.remainingPath))
                EXCEPT ![w.node].children = Append(@, Len(ns) + 1)]]

\* findAll when bestNode shares bestCommonLength characters with the remaining
\* path: a branch node takes bestNode's place and, if path remains, a new child
FindAllSplit(ns, this, w, bestNode, bestCommonLength) ==
    IF Len(w.remainingPath) <= bestCommonLength
    THEN [found |-> TRUE, output |-> Append(w.output, Len(ns) + 1),
          ns |-> [Append(ns, NewNode(SubstrLen(ns[bestNode].segment, 0, bestCommonLength)))
                     EXCEPT ![w.node].children =
                                Splice(@, SplitIndex(ns, this, w.node, bestNode), 1,
                                       <<Len(ns) + 1>>),
                            ![bestNode].segment = Substr(@, bestCommonLength),
                            ![Len(ns) + 1].children = Append(@, bestNode)]]
    ELSE [found |-> TRUE, output |-> w.output \o <<Len(ns) + 1, Len(ns) + 2>>,
          ns |-> [Append(ns, NewNode(SubstrLen(ns[bestNode].segment, 0, bestCommonLength)))
                      \o <<NewNode(Substr(w.remainingPath, bestCommonLength))>>
                     EXCEPT ![w.node].children =
                                Splice(@, SplitIndex(ns, this, w.node, bestNode), 1,
                                       <<Len(ns) + 1>>),
                            ![bestNode].segment = Substr(@, bestCommonLength),
                            ![Len(ns) + 1].children = <<bestNode, Len(ns) + 2>>]]

\* A findAll that inserts the missing node whatever createIfNone is
FindAllAfterWalkCreating(ns, this, createIfNone, w) ==
    IF w.returned THEN [found |-> TRUE, output |-> w.output, ns |-> ns]
    ELSE IF BestNode(ns, w.node, w.remainingPath) = 0 THEN FindAllNewChild(ns, w)
    ELSE FindAllSplit(ns, this, w, BestNode(ns, w.node, w.remainingPath),
                      commonLength(w.remainingPath,
                                   ns[BestNode(ns, w.node, w.remainingPath)].segment))

\* findAll after its while loop ended with the result w
FindAllAfterWalk(ns, this, createIfNone, w) ==
    IF w.returned THEN [found |-> TRUE, output |-> w.output, ns |-> ns]
    ELSE IF ~createIfNone THEN [found |-> FALSE, output |-> <<>>, ns |-> ns]
    ELSE IF BestNode(ns, w.node, w.remainingPath) = 0 THEN FindAllNewChild(ns, w)
    ELSE FindAllSplit(ns, this, w, BestNode(ns, w.node, w.remainingPath),
                      commonLength(w.remainingPath,
                                   ns[BestNode(ns, w.node, w.remainingPath)].segment))

\* findAll(path, createIfNone), called on the node `this`.
\* found is FALSE when it returns null; ns is the heap afterwards.
findAll(ns, this, path, createIfNone) ==
    IF Len(path) = 0 THEN [found |-> TRUE, output |-> <<this>>, ns |-> ns]
    ELSE FindAllAfterWalk(ns, this, createIfNone, FindWalk(ns, this, path, <<this>>))

\* The last node of what findAll returned; 0 for null
LastFound(r) == IF r.found THEN r.output[Len(r.output)] ELSE 0

\* find(path): the node, or 0 for null
find(ns, this, path) == LastFound(findAll(ns, this, path, FALSE))

\* What findOrCreateNode returns of findAll's result: the node, and the heap
Created(r) == [node |-> LastFound(r), ns |-> r.ns]

\* findOrCreateNode(path)
findOrCreateNode(ns, this, path) == Created(findAll(ns, this, path, TRUE))

\* The root Node of the Router, and of a tree used on its own.
rootNode == 1

\* *nodeIterator(path): the generator right after it was created
nodeIterator(this, path) ==
    [pc |-> "start", this |-> this, path |-> path, node |-> this, remainingPath |-> path]

IterDone(st) ==
    [done |-> TRUE, node |-> 0, remainingPath |-> <<>>, state |-> [st EXCEPT !.pc = "done"]]

\* A nodeIterator that also enters a child whose segment goes on after the end
\* of the path
IterDescendLenient(ns, st, node, remainingPath) ==
    LET ch == ns[node].children
        hits == {i \in 1..Len(ch) : \/ StartsWith(remainingPath, ns[ch[i]].segment)
                                    \/ StartsWith(ns[ch[i]].segment, remainingPath)}
    IN  IF hits = {} \/ Len(remainingPath) = 0 THEN IterDone(st)
        ELSE LET child == ch[CHOOSE i \in hits : \A j \in hits : i <= j]
                 rest == IF StartsWith(remainingPath, ns[child].segment)
                         THEN Substr(remainingPath, Len(ns[child].segment)) ELSE <<>>
             IN  [done |-> FALSE, node |-> child, remainingPath |-> rest,
                  state |-> [st EXCEPT !.pc = "loop", !.node = child,
                                       !.remainingPath = rest]]

\* The while loop of nodeIterator, from its top: yields the matching child or ends
IterDescend(ns, st, node, remainingPath) ==
    IF ~isLeaf(ns, node) /\ Len(remainingPath) > 0
    THEN LET child == FirstMatchingChild(ns, node, remainingPath)
         IN  IF child = 0 THEN IterDone(st)
             ELSE LET rest == Substr(remainingPath, Len(ns[child].segment))
                  IN  [done |-> FALSE, node |-> child, remainingPath |-> rest,
                       state |-> [st EXCEPT !.pc = "loop", !.node = child,
                                            !.remainingPath = rest]]
    ELSE IterDone(st)

\* nodeIterator.next(sent): resumes the generator with the value sent
\* (Undefined when next() is called without an argument)
nodeIteratorNext(ns, st, sent) ==
    CASE st.pc = "start" ->
            [done |-> FALSE, node |-> st.this, remainingPath |-> st.path,
             state |-> [st EXCEPT !.pc = "first"]]
      [] st.pc = "first" ->
            \* (yield ...) || path
            LET remainingPath == IF sent # Undefined /\ Len(sent) > 0 THEN sent ELSE st.path
            IN  IF Len(remainingPath) = 0 THEN IterDone(st)
                ELSE IterDescend(ns, st, st.this, remainingPath)
      [] st.pc = "loop" ->
            \* if (typeof newPath === 'string') remainingPath = newPath
            LET remainingPath == IF sent # Undefined THEN sent ELSE st.remainingPath
            IN  IF Len(remainingPath) = 0 THEN IterDone(st)
                ELSE IterDescend(ns, st, st.node, remainingPath)
      [] OTHER -> IterDone(st)

-----------------------------------------------------------------------------
(* pathParser                                                              *)

\* The characters a parameter name is made of: [A-Za-z0-9_]
Digits == {"0", "1", "2", "3", "4", "5", "6", "7", "8", "9"}
NameChars == Digits \cup {"_", "a", "b", "c", "d", "i", "j", "n", "r", "u", "x"}

DigitValue(c) ==
    CASE c = "0" -> 0 [] c = "1" -> 1 [] c = "2" -> 2 [] c = "3" -> 3 [] c = "4" -> 4
      [] c = "5" -> 5 [] c = "6" -> 6 [] c = "7" -> 7 [] c = "8" -> 8 [] OTHER -> 9

RECURSIVE ParseInt(_)
ParseInt(digits) ==
    IF digits = <<>> THEN 0
    ELSE ParseInt(SubSeq(digits, 1, Len(digits) - 1)) * 10 + DigitValue(digits[Len(digits)])

\* The index after the longest run of characters of `set` starting at index i
RECURSIVE RunEnd(_, _, _)
RunEnd(p, i, set) == IF i <= Len(p) /\ p[i] \in set THEN RunEnd(p, i + 1, set) ELSE i

\* The index of the ")" closing the "(" before index i; 0 if there is none
RECURSIVE RegexEnd(_, _, _)
RegexEnd(p, i, depth) ==
    IF i > Len(p) THEN 0
    ELSE IF p[i] = "\\" THEN RegexEnd(p, i + 2, depth)
    ELSE IF p[i] = "(" THEN RegexEnd(p, i + 1, depth + 1)
    ELSE IF p[i] = ")" THEN (IF depth = 0 THEN i ELSE RegexEnd(p, i + 1, depth - 1))
    ELSE RegexEnd(p, i + 1, depth)

\* regex: null
NoRegex == [has |-> FALSE, source |-> <<>>]

\* The info of a segment that is no parameter
NoInfo == [name |-> <<>>, matchAll |-> FALSE, regex |-> NoRegex, stage |-> 0]

PathSegment(path) == [type |-> "path", path |-> path, info |-> NoInfo]

ParameterSegment(info) == [type |-> "parameter", path |-> <<>>, info |-> info]

ParseFailed == [ok |-> FALSE, segments |-> <<>>]

\* A literal from index i: [ok, text, next]
RECURSIVE ParseLiteral(_, _, _)
ParseLiteral(p, i, text) ==
    IF i > Len(p) \/ p[i] = ":" THEN [ok |-> TRUE, text |-> text, next |-> i]
    ELSE IF p[i] = "\\"
    THEN (IF i + 1 > Len(p) THEN [ok |-> FALSE, text |-> text, next |-> i]
          ELSE ParseLiteral(p, i + 2, Append(text, p[i + 1])))
    ELSE ParseLiteral(p, i + 1, Append(text, p[i]))

\* The end of a parameter: an optional "*", then the text after it
ParamAfterRegex(p, name, stage, regex, j) ==
    [ok |-> TRUE,
     info |-> [name |-> name, matchAll |-> j <= Len(p) /\ p[j] = "*", regex |-> regex,
               stage |-> stage],
     next |-> IF j <= Len(p) /\ p[j] = "*" THEN j + 1 ELSE j]

\* "(" at index j, closed at index close (0 if it is not closed)
ParamRegex(p, name, stage, j, close) ==
    IF close = 0 \/ close = j + 1 THEN [ok |-> FALSE, info |-> NoInfo, next |-> j]
    ELSE ParamAfterRegex(p, name, stage,
                         [has |-> TRUE, source |-> SubSeq(p, j + 1, close - 1)], close + 1)

\* After the name and the stage: an optional regex in parentheses
ParamAfterStage(p, name, stage, j) ==
    IF j <= Len(p) /\ p[j] = "("
    THEN ParamRegex(p, name, stage, j, RegexEnd(p, j + 1, 0))
    ELSE ParamAfterRegex(p, name, stage, NoRegex, j)

\* The digits of a stage, from digitsStart to before stageEnd
ParamStageDigits(p, name, negative, digitsStart, stageEnd) ==
    IF stageEnd = digitsStart THEN [ok |-> FALSE, info |-> NoInfo, next |-> stageEnd]
    ELSE ParamAfterStage(p, name,
            IF negative THEN 0 - ParseInt(SubSeq(p, digitsStart, stageEnd - 1))
            ELSE ParseInt(SubSeq(p, digitsStart, stageEnd - 1)),
            stageEnd)

\* After "$": an optional "-" and the digits of the stage
ParamStage(p, name, j) ==
    IF j <= Len(p) /\ p[j] = "-"
    THEN ParamStageDigits(p, name, TRUE, j + 1, RunEnd(p, j + 1, Digits))
    ELSE ParamStageDigits(p, name, FALSE, j, RunEnd(p, j, Digits))

\* After the name, which ends before nameEnd: an optional "$" and stage
ParamAfterName(p, i, nameEnd) ==
    IF nameEnd = i + 1 THEN [ok |-> FALSE, info |-> NoInfo, next |-> nameEnd]
    ELSE IF nameEnd <= Len(p) /\ p[nameEnd] = "$"
    THEN ParamStage(p, SubSeq(p, i + 1, nameEnd - 1), nameEnd + 1)
    ELSE ParamAfterStage(p, SubSeq(p, i + 1, nameEnd - 1), 0, nameEnd)

\* A parameter whose ":" is at index i: [ok, info, next]
ParseParameter(p, i) == ParamAfterName(p, i, RunEnd(p, i + 1, NameChars))

RECURSIVE ParseSegments(_, _, _)

\* The segments after the parameter or the literal text that r is
SegmentsAfter(p, segments, r, segment) ==
    IF ~r.ok THEN ParseFailed
    ELSE ParseSegments(p, r.next, Append(segments, segment))

SegmentsAfterParameter(p, segments, r) ==
    SegmentsAfter(p, segments, r, ParameterSegment(r.info))

SegmentsAfterLiteral(p, segments, r) ==
    SegmentsAfter(p, segments, r, PathSegment(r.text))

\* The segments from index i on, where text remains
SegmentsFrom(p, i, segments, afterParameter, last) ==
    \* a match all parameter without a regex must be the last segment
    IF afterParameter /\ last.matchAll /\ ~last.regex.has THEN ParseFailed
    ELSE IF p[i] = ":"
    THEN \* no parameter first, none right after a parameter without a regex
         IF segments = <<>> \/ (afterParameter /\ ~last.regex.has) THEN ParseFailed
         ELSE SegmentsAfterParameter(p, segments, ParseParameter(p, i))
    ELSE SegmentsAfterLiteral(p, segments, ParseLiteral(p, i, <<>>))

ParseSegments(p, i, segments) ==
    IF i > Len(p) THEN [ok |-> TRUE, segments |-> segments]
    ELSE IF segments = <<>> THEN SegmentsFrom(p, i, segments, FALSE, NoInfo)
    ELSE SegmentsFrom(p, i, segments, segments[Len(segments)].type = "parameter",
                      segments[Len(segments)].info)

\* parsePath(path)
parsePath(path) == ParseSegments(path, 1, <<>>)

-----------------------------------------------------------------------------
(* Router: registration                                                    *)

\* A lookup that also wants the stage of the route to be the declared one
FindParamRouteOfStage(late, info) ==
    LET od == orderedData(late)
        hits == {i \in 1..Len(od) : /\ od[i].name = info.name
                                    /\ od[i].matchAll = info.matchAll
                                    /\ od[i].regex = info.regex
                                    /\ late.stagedData[i][1] = info.stage}
    IN  IF hits = {} THEN 0 ELSE CHOOSE i \in hits : \A j \in hits : i <= j

\* The entry of lateParams.orderedData that getNode's find() returns: the
\* first with the same name, matchAll and regex source; 0 if none.
FindParamRoute(late, info) ==
    LET od == orderedData(late)
        hits == {i \in 1..Len(od) : /\ od[i].name = info.name
                                    /\ od[i].matchAll = info.matchAll
                                    /\ od[i].regex = info.regex}
    IN  IF hits = {} THEN 0 ELSE CHOOSE i \in hits : \A j \in hits : i <= j

RECURSIVE GetNodeLoop(_, _, _, _)

\* getNode's step for a path segment, r being what findAll returned
GetNodePath(r, segments, createIfNone) ==
    IF ~r.found THEN [node |-> 0, ns |-> r.ns]
    ELSE GetNodeLoop(r.ns, segments, LastFound(r), createIfNone)

\* getNode's step for a parameter segment, existing being the index of the
\* ParameterRoute found (0 if none): a new route gets a new root Node
GetNodeParameter(ns, segments, currentNode, createIfNone, info, existing) ==
    IF existing # 0
    THEN GetNodeLoop(ns, segments,
                     orderedData(ns[currentNode].data.lateParams)[existing].rootNode,
                     createIfNone)
    ELSE IF ~createIfNone THEN [node |-> 0, ns |-> ns]
    ELSE GetNodeLoop(
            [Append(ns, NewNode(RootSegment)) EXCEPT ![currentNode].data.lateParams =
                addData(@, info.stage,
                        <<[name |-> info.name, matchAll |-> info.matchAll,
                           regex |-> info.regex, rootNode |-> Len(ns) + 1]>>)],
            segments, Len(ns) + 1, createIfNone)

\* The while loop of getNode.  node is 0 for null.
GetNodeLoop(ns, segments, currentNode, createIfNone) ==
    IF Len(segments) = 0 THEN [node |-> currentNode, ns |-> ns]
    ELSE IF Head(segments).type = "path"
    THEN GetNodePath(findAll(ns, currentNode, Head(segments).path, createIfNone),
                     Tail(segments), createIfNone)
    ELSE GetNodeParameter(ns, Tail(segments), currentNode, createIfNone,
                          Head(segments).info,
                          FindParamRoute(ns[currentNode].data.lateParams,
                                         Head(segments).info))

\* getNode once the path is parsed
GetNodeParsed(ns, parsed, createIfNone) ==
    IF ~parsed.ok THEN [error |-> TRUE, node |-> 0, ns |-> ns]
    ELSE [error |-> FALSE] @@ GetNodeLoop(ns, parsed.segments, rootNode, createIfNone)

\* getNode(path, createIfNone).  error is TRUE when it throws.
getNode(ns, path, createIfNone) ==
    IF Len(path) = 0 \/ path[1] # "/" THEN [error |-> TRUE, node |-> 0, ns |-> ns]
    ELSE GetNodeParsed(ns, parsePath(path), createIfNone)

\* node.data.getMethodData(method, true).middleware.addData(stage, ...middleware),
\* g being what getNode returned
AddToMiddleware(g, method, stage, middleware) ==
    IF g.error THEN g.ns
    ELSE [g.ns EXCEPT ![g.node].data =
            [WithMethodData(@, method) EXCEPT !.methodData[method].middleware =
                addData(@, stage, middleware)]]

\* node.data.getMethodData(method, true).terminators.addData(stage, ...middleware)
AddToTerminators(g, method, stage, middleware) ==
    IF g.error THEN g.ns
    ELSE [g.ns EXCEPT ![g.node].data =
            [WithMethodData(@, method) EXCEPT !.methodData[method].terminators =
                addData(@, stage, middleware)]]

\* addMiddleware(method, path, stage, ...middleware): the heap afterwards
addMiddleware(ns, method, path, stage, middleware) ==
    AddToMiddleware(getNode(ns, path, TRUE), method, stage, middleware)

\* addTerminator(method, path, stage, ...middleware): the heap afterwards
addTerminator(ns, method, path, stage, middleware) ==
    AddToTerminators(getNode(ns, path, TRUE), method, stage, middleware)

\* A use that registers terminators whether the path ends with '*' or not
useTerminatorsOnly(ns, path, stage, middleware) ==
    addTerminator(ns, MIDDLEWARE,
                  IF EndsWith(path, <<"*">>) THEN SubstrLen(path, 0, Len(path) - 1) ELSE path,
                  stage, middleware)

\* use(path, stage, ...middleware): the heap afterwards
use(ns, path, stage, middleware) ==
    IF EndsWith(path, <<"*">>)
    THEN addMiddleware(ns, MIDDLEWARE, SubstrLen(path, 0, Len(path) - 1), stage, middleware)
    ELSE addTerminator(ns, MIDDLEWARE, path, stage, middleware)

\* The argument a helper gets in the place of the stage: a number, the first
\* middleware, or nothing at all
NumberArg(n) == [type |-> "number", value |-> n]
FunctionArg(h) == [type |-> "function", value |-> h]
UndefinedArg == [type |-> "undefined", value |-> 0]

\* const decidedStage = typeof stage === 'number' ? stage : 0
DecidedStage(stage) == IF stage.type = "number" THEN stage.value ELSE 0

\* const combinedMiddleware = typeof stage === 'number' ? middleware
\*                                                       : [stage].concat(middleware)
CombinedMiddleware(stage, middleware) ==
    IF stage.type = "number" THEN middleware ELSE <<stage.value>> \o middleware

\* use(path, stage, ...middleware) with whatever arrives in the place of the
\* stage: a number or the first middleware
useCall(ns, path, stage, middleware) ==
    use(ns, path, DecidedStage(stage), CombinedMiddleware(stage, middleware))

\* A helper that registers every handler as a terminator
HelperAddAllTerminators(ns, method, path, decidedStage, combinedMiddleware) ==
    IF Len(combinedMiddleware) = 0 \/ getNode(ns, path, TRUE).error
    THEN [error |-> TRUE, ns |-> ns]
    ELSE [error |-> FALSE,
          ns |-> addTerminator(ns, method, path, decidedStage, combinedMiddleware)]

\* addMiddlewareHelper once the stage and the middleware are told apart: throws
\* 'No middleware provided', or what getNode throws, or registers all but the
\* last as middleware and the last as a terminator
HelperAdd(ns, method, path, decidedStage, combinedMiddleware) ==
    IF Len(combinedMiddleware) = 0 \/ getNode(ns, path, TRUE).error
    THEN [error |-> TRUE, ns |-> ns]
    ELSE [error |-> FALSE,
          ns |-> addTerminator(
                    IF Len(combinedMiddleware) > 1
                    THEN addMiddleware(ns, method, path, decidedStage,
                                       SubSeq(combinedMiddleware, 1,
                                              Len(combinedMiddleware) - 1))
                    ELSE ns,
                    method, path, decidedStage,
                    <<combinedMiddleware[Len(combinedMiddleware)]>>)]

\* addMiddlewareHelper(method, path, stage, ...middleware)
addMiddlewareHelper(ns, method, path, stage, middleware) ==
    HelperAdd(ns, method, path, DecidedStage(stage), CombinedMiddleware(stage, middleware))

\* The verb helpers and the method each of them registers for
Helpers ==
    {"all", "connect", "delete", "del", "get", "head", "options", "patch", "post", "put",
     "trace"}

HelperMethod(helper) ==
    CASE helper = "all" -> ALL
      [] helper = "connect" -> "CONNECT"
      [] helper = "delete" -> "DELETE"
      [] helper = "del" -> "DELETE"
      [] helper = "get" -> "GET"
      [] helper = "head" -> "HEAD"
      [] helper = "options" -> "OPTIONS"
      [] helper = "patch" -> "PATCH"
      [] helper = "post" -> "POST"
      [] helper = "put" -> "PUT"
      [] helper = "trace" -> "TRACE"

-----------------------------------------------------------------------------
(* Router: dispatch                                                        *)

\* String.prototype.match(regex)[0] for the regexes the model registers, each
\* anchored at the start by the parser: \d+ , \d+$ and .* ; matched is FALSE
\* for null.
RegexExec(source, text) ==
    LET digitsEnd == RunEnd(text, 1, Digits)
    IN  CASE source = <<"\\", "d", "+">> ->
                [matched |-> digitsEnd > 1, value |-> SubSeq(text, 1, digitsEnd - 1)]
          [] source = <<"\\", "d", "+", "$">> ->
                [matched |-> digitsEnd > 1 /\ digitsEnd > Len(text), value |-> text]
          [] source = <<".", "*">> ->
                [matched |-> TRUE, value |-> text]
          [] OTHER -> [matched |-> FALSE, value |-> <<>>]

\* ctx.params[name]
GetParam(params, name) == IF name \in DOMAIN params THEN params[name] ELSE Undefined

\* The setter handed to middlewareValueWrapper: deletes the key for undefined
SetParam(params, name, value) ==
    IF value = Undefined
    THEN [n \in (DOMAIN params) \ {name} |-> params[n]]
    ELSE [n \in (DOMAIN params) \cup {name} |-> IF n = name THEN value ELSE params[n]]

\* An IteratorResult of nodeIterator, as the generator keeps it
Result(r) == [done |-> r.done, node |-> r.node, remainingPath |-> r.remainingPath]

\* middlewareGenerator(node, path, ctx, next) up to its first await
NewGenerator(ns, node, path, depth) ==
    LET r == nodeIteratorNext(ns, nodeIterator(node, path), Undefined)
    IN  [it |-> r.state,
         current |-> [done |-> TRUE, node |-> 0, remainingPath |-> <<>>],
         next |-> Result(r),
         terminatorMiddleware |-> <<>>,
         queue |-> <<>>,
         resume |-> "loop",
         depth |-> depth]

\* A router without the fallback: HEAD is a method like any other
NoHeadFallback(data, method) == FALSE

\* HEAD falls back to GET when the node has no HEAD terminators
HeadFallback(data, method) == method = "HEAD" /\ TerminatorsLength(data, method) = 0

\* A router that takes the GET data for every request method
EffectiveMethodAlwaysGet(data, method) == "GET"

\* The method whose data methodData holds after the fallback
EffectiveMethod(data, method) == IF HeadFallback(data, method) THEN "GET" ELSE method

\* A test that lets the MIDDLEWARE terminators make the node a final node too
HasTerminatorsOfAnyKind(data, method) ==
    \/ TerminatorsLength(data, EffectiveMethod(data, method)) > 0
    \/ TerminatorsLength(data, ALL) > 0
    \/ TerminatorsLength(data, MIDDLEWARE) > 0

\* hasTerminators
HasTerminators(data, method) ==
    \/ TerminatorsLength(data, EffectiveMethod(data, method)) > 0
    \/ TerminatorsLength(data, ALL) > 0

\* matchingMiddlewareSAs with the HEAD middleware pushed after the GET middleware
MatchingMiddlewareSAsHeadLast(data, method, terminatorMiddleware) ==
    (IF MiddlewareLength(data, MIDDLEWARE) > 0
        THEN <<data.methodData[MIDDLEWARE].middleware>> ELSE <<>>)
    \o terminatorMiddleware
    \o (IF TerminatorsLength(data, MIDDLEWARE) > 0
        THEN <<data.methodData[MIDDLEWARE].terminators>> ELSE <<>>)
    \o (IF MiddlewareLength(data, EffectiveMethod(data, method)) > 0
        THEN <<data.methodData[EffectiveMethod(data, method)].middleware>> ELSE <<>>)
    \o (IF HeadFallback(data, method) /\ MiddlewareLength(data, method) > 0
        THEN <<data.methodData[method].middleware>> ELSE <<>>)
    \o (IF MiddlewareLength(data, ALL) > 0
        THEN <<data.methodData[ALL].middleware>> ELSE <<>>)

\* matchingMiddlewareSAs, in the order the StagedArrays are pushed
MatchingMiddlewareSAs(data, method, terminatorMiddleware) ==
    LET eff == EffectiveMethod(data, method)
    IN  (IF MiddlewareLength(data, MIDDLEWARE) > 0
            THEN <<data.methodData[MIDDLEWARE].middleware>> ELSE <<>>)
        \o terminatorMiddleware
        \o (IF TerminatorsLength(data, MIDDLEWARE) > 0
            THEN <<data.methodData[MIDDLEWARE].terminators>> ELSE <<>>)
        \o (IF HeadFallback(data, method) /\ MiddlewareLength(data, method) > 0
            THEN <<data.methodData[method].middleware>> ELSE <<>>)
        \o (IF MiddlewareLength(data, eff) > 0
            THEN <<data.methodData[eff].middleware>> ELSE <<>>)
        \o (IF MiddlewareLength(data, ALL) > 0
            THEN <<data.methodData[ALL].middleware>> ELSE <<>>)

\* The yields of a final node with the terminators for ALL put before the method's
FinalYieldsAllFirst(data, method, terminatorMiddleware) ==
    <<StagedArraySort(MatchingMiddlewareSAs(data, method, terminatorMiddleware))>>
    \o (IF HasMethodData(data, ALL)
        THEN <<orderedData(data.methodData[ALL].terminators)>> ELSE <<>>)
    \o (IF HasMethodData(data, EffectiveMethod(data, method))
        THEN <<orderedData(data.methodData[EffectiveMethod(data, method)].terminators)>>
        ELSE <<>>)

\* What the generator yields at a final node with terminators, in order
FinalYields(data, method, terminatorMiddleware) ==
    LET eff == EffectiveMethod(data, method)
    IN  <<StagedArraySort(MatchingMiddlewareSAs(data, method, terminatorMiddleware))>>
        \o (IF HasMethodData(data, eff)
            THEN <<orderedData(data.methodData[eff].terminators)>> ELSE <<>>)
        \o (IF HasMethodData(data, ALL)
            THEN <<orderedData(data.methodData[ALL].terminators)>> ELSE <<>>)

\* A boundary test that leaves out the labels: only the end of the walk counts
OnBoundaryAtEndOnly(ns, g) == g.next.done

\* Determine if this node is on a path segment boundary
OnBoundary(ns, g) ==
    \/ g.next.done
    \/ EndsWith(ns[g.current.node].segment, <<"/">>)
    \/ StartsWith(ns[g.next.node].segment, <<"/">>)

\* The node is final if no nodes follow and no path remains (or only a slash)
IsFinal(g, strict) ==
    /\ g.next.done
    /\ \/ Len(g.current.remainingPath) = 0
       \/ ~strict /\ g.current.remainingPath = <<"/">>

\* A parameter route that, once its regex matches, takes all of the text the
\* regex was applied to instead of the matched part
ParamValueWholeText(param, remainingPath) ==
    LET slashIndex == IndexOf(remainingPath, "/")
        segmentValue == IF slashIndex = -1 THEN remainingPath
                        ELSE SubstrLen(remainingPath, 0, slashIndex)
        paramValue == IF param.matchAll THEN remainingPath ELSE segmentValue
    IN  IF Len(paramValue) = 0 /\ ~param.regex.has THEN [skip |-> TRUE, value |-> <<>>]
        ELSE IF param.regex.has /\ ~RegexExec(param.regex.source, paramValue).matched
        THEN [skip |-> TRUE, value |-> <<>>]
        ELSE [skip |-> FALSE, value |-> paramValue]

\* A parameter route that also takes an empty value when it has no regex
ParamValueMayBeEmpty(param, remainingPath) ==
    LET slashIndex == IndexOf(remainingPath, "/")
        segmentValue == IF slashIndex = -1 THEN remainingPath
                        ELSE SubstrLen(remainingPath, 0, slashIndex)
        paramValue == IF param.matchAll THEN remainingPath ELSE segmentValue
    IN  IF param.regex.has
        THEN (IF ~RegexExec(param.regex.source, paramValue).matched
              THEN [skip |-> TRUE, value |-> <<>>]
              ELSE [skip |-> FALSE, value |-> RegexExec(param.regex.source, paramValue).value])
        ELSE [skip |-> FALSE, value |-> paramValue]

\* The value a parameter route takes from the remaining path: [skip, value]
ParamValue(param, remainingPath) ==
    LET slashIndex == IndexOf(remainingPath, "/")
        segmentValue == IF slashIndex = -1 THEN remainingPath
                        ELSE SubstrLen(remainingPath, 0, slashIndex)
        paramValue == IF param.matchAll THEN remainingPath ELSE segmentValue
        result == RegexExec(param.regex.source, paramValue)
    IN  IF Len(paramValue) = 0 /\ ~param.regex.has THEN [skip |-> TRUE, value |-> <<>>]
        ELSE IF param.regex.has
        THEN (IF ~result.matched THEN [skip |-> TRUE, value |-> <<>>]
              ELSE [skip |-> FALSE, value |-> result.value])
        ELSE [skip |-> FALSE, value |-> paramValue]

\* The first entry of lateParams.orderedData the for loop does not skip; 0 if none
FirstParam(late, remainingPath) ==
    LET od == orderedData(late)
        hits == {i \in 1..Len(od) : ~ParamValue(od[i], remainingPath).skip}
    IN  IF hits = {} THEN 0 ELSE CHOOSE i \in hits : \A j \in hits : i <= j

\* The history entry for a node the generator handles: the node, what is left of
\* the path, the node after it (0 if none) and whether it ran as the final node
Visit(g, final) ==
    [node |-> g.current.node, remainingPath |-> g.current.remainingPath,
     depth |-> g.depth, nextNode |-> IF g.next.done THEN 0 ELSE g.next.node,
     final |-> final]

\* The generator at a final node with terminators: what it will yield, then
\* `continue`
AtFinalNode(g, data, method) ==
    [g EXCEPT !.queue = FinalYields(data, method, g.terminatorMiddleware),
              !.resume = "loop"]

\* A generator that yields the MIDDLEWARE terminators of a middleware node at
\* once, ahead of the node's middleware, instead of keeping them for later
AtMiddlewareNodeTerminatorsAtOnce(g, data) ==
    [g EXCEPT !.queue =
                 (IF TerminatorsLength(data, MIDDLEWARE) > 0
                  THEN <<orderedData(data.methodData[MIDDLEWARE].terminators)>>
                  ELSE <<>>)
                 \o (IF MiddlewareLength(data, MIDDLEWARE) > 0
                     THEN <<orderedData(data.methodData[MIDDLEWARE].middleware)>>
                     ELSE <<>>),
              !.resume = "params"]

\* The generator at a node it runs as middleware only: it keeps the MIDDLEWARE
\* terminators for later, yields the MIDDLEWARE middleware, then handles parameters
AtMiddlewareNode(g, data) ==
    [g EXCEPT !.terminatorMiddleware =
                 IF TerminatorsLength(data, MIDDLEWARE) > 0
                 THEN Append(@, data.methodData[MIDDLEWARE].terminators)
                 ELSE @,
              !.queue =
                 IF MiddlewareLength(data, MIDDLEWARE) > 0
                 THEN <<orderedData(data.methodData[MIDDLEWARE].middleware)>>
                 ELSE <<>>,
              !.resume = "params"]

\* result.current = result.next; result.next = nodeIterator.next()
Advance(g, r) == [g EXCEPT !.current = g.next, !.next = Result(r), !.it = r.state]

\* `return`: the generator is done, the runner returns
Return(g, visits) ==
    [kind |-> "return", group |-> <<>>, g |-> g, visits |-> visits, param |-> 0,
     value |-> <<>>]

\* A generator that ends without calling the next it was given
ReturnWithoutNext(g, visits) == Return(g, visits)

\* `return next()`: the generator calls the next it was given and is done
ReturnNext(g, visits) ==
    [kind |-> "return next", group |-> <<>>, g |-> g, visits |-> visits, param |-> 0,
     value |-> <<>>]

\* The node data after the lookups of a node that may be final:
\* getMethodData(ctx.method), getMethodData('GET') for the HEAD fallback and
\* getMethodData(SpecialMethod.ALL)
DataAfterFinalLookups(data, method) ==
    getMethodData(IF HeadFallback(data, method)
                  THEN getMethodData(getMethodData(data, method, FALSE), "GET", FALSE)
                  ELSE getMethodData(data, method, FALSE),
                  ALL, FALSE)

\* The node data after the lookups at a node on a segment boundary, which end
\* with getMethodData(SpecialMethod.MIDDLEWARE)
DataAfterLookups(data, method, final) ==
    getMethodData(IF final THEN DataAfterFinalLookups(data, method) ELSE data,
                  MIDDLEWARE, FALSE)

\* The heap after the generator handled the node of the visit v
HeapAfterVisit(ns, v, method, strict) ==
    IF \/ v.nextNode = 0
       \/ EndsWith(ns[v.node].segment, <<"/">>)
       \/ StartsWith(ns[v.nextNode].segment, <<"/">>)
    THEN [ns EXCEPT ![v.node].data =
            DataAfterLookups(@, method,
                /\ v.nextNode = 0
                /\ \/ Len(v.remainingPath) = 0
                   \/ ~strict /\ v.remainingPath = <<"/">>)]
    ELSE ns

\* The heap after the generator handled the nodes of visits, in order
RECURSIVE HeapAfterVisits(_, _, _, _)
HeapAfterVisits(ns, visits, method, strict) ==
    IF visits = <<>> THEN ns
    ELSE HeapAfterVisits(HeapAfterVisit(ns, Head(visits), method, strict), Tail(visits),
                         method, strict)

\* The generator from the point it is resumed at to the point it next gives up
\* control: a yield of a group, `return next()`, `return`, or the await of a
\* parameter's sub-dispatch.  visits collects the nodes handled on the way.
RECURSIVE GenResume(_, _, _, _, _)
RECURSIVE GenResumeTop(_, _, _, _, _)
RECURSIVE GenLoop(_, _, _, _, _)

\* A generator that goes on with its loop after the sub-dispatch of a parameter
GenParamThenGoesOn(ns, g, method, strict, visits, late, p) ==
    IF length(late) > 0 /\ p # 0
    THEN [kind |-> "param", group |-> <<>>, g |-> [g EXCEPT !.resume = "loop"],
          visits |-> visits, param |-> p,
          value |-> ParamValue(orderedData(late)[p], g.current.remainingPath).value]
    ELSE GenLoop(ns, [g EXCEPT !.resume = "loop"], method, strict, visits)

\* A generator that, when the value a parameter takes is empty, tries the
\* parameters of the same node again instead of dispatching the sub-tree
GenParamRetriesEmpty(ns, g, method, strict, visits, late, p) ==
    IF length(late) > 0 /\ p # 0
    THEN IF ParamValue(orderedData(late)[p], g.current.remainingPath).value = <<>>
         THEN [kind |-> "yield", group |-> <<>>, g |-> [g EXCEPT !.resume = "params"],
               visits |-> visits, param |-> 0, value |-> <<>>]
         ELSE [kind |-> "param", group |-> <<>>, g |-> [g EXCEPT !.resume = "return"],
               visits |-> visits, param |-> p,
               value |-> ParamValue(orderedData(late)[p], g.current.remainingPath).value]
    ELSE GenLoop(ns, [g EXCEPT !.resume = "loop"], method, strict, visits)

\* The parameter branch: p is the index of the first parameter route that takes
\* a value (0 if none)
GenParam(ns, g, method, strict, visits, late, p) ==
    IF length(late) > 0 /\ p # 0
    THEN [kind |-> "param", group |-> <<>>, g |-> [g EXCEPT !.resume = "return"],
          visits |-> visits, param |-> p,
          value |-> ParamValue(orderedData(late)[p], g.current.remainingPath).value]
    ELSE GenLoop(ns, [g EXCEPT !.resume = "loop"], method, strict, visits)

GenParams(ns, g, method, strict, visits) ==
    GenParam(ns, g, method, strict, visits, ns[g.current.node].data.lateParams,
             FirstParam(ns[g.current.node].data.lateParams, g.current.remainingPath))

\* The body of the while loop for the node g.current, whose data is data
GenNode(ns, g, data, method, strict, visits) ==
    IF OnBoundary(ns, g)
    THEN IF IsFinal(g, strict) /\ HasTerminators(data, method)
         THEN GenResume(ns, AtFinalNode(g, data, method), method, strict,
                        Append(visits, Visit(g, TRUE)))
         ELSE GenResume(ns, AtMiddlewareNode(g, data), method, strict,
                        Append(visits, Visit(g, FALSE)))
    ELSE GenParams(ns, g, method, strict, Append(visits, Visit(g, FALSE)))

\* The generator resumed: g and visits are evaluated once, then the code runs
GenResume(ns, g, method, strict, visits) ==
    CHOOSE r \in {GenResumeTop(ns, gv[1], method, strict, gv[2]) : gv \in {<<g, visits>>}} :
        TRUE

\* The code of the generator from the point it is resumed at
GenResumeTop(ns, g, method, strict, visits) ==
    IF g.queue # <<>>
    THEN [kind |-> "yield", group |-> Head(g.queue), g |-> [g EXCEPT !.queue = Tail(@)],
          visits |-> visits, param |-> 0, value |-> <<>>]
    ELSE IF g.resume = "params" THEN GenParams(ns, g, method, strict, visits)
    ELSE IF g.resume = "return" THEN Return(g, visits)
    ELSE GenLoop(ns, g, method, strict, visits)

GenLoop(ns, g, method, strict, visits) ==
    IF g.next.done THEN ReturnNext(g, visits)
    ELSE GenNode(ns, Advance(g, nodeIteratorNext(ns, g.it, Undefined)),
                 ns[g.next.node].data, method, strict, visits)

-----------------------------------------------------------------------------
(* State machine                                                           *)

\* ctx: the request's method and path and ctx.params (hasParams: ctx.params is
\* an object); before remembers ctx.params as they were when the router was called
NoParams == [has |-> FALSE, params |-> <<>>]

NoContext ==
    [method |-> "", path |-> <<>>, hasParams |-> FALSE, params |-> <<>>, before |-> NoParams]

\* Every handler so far awaited the next() it called
NotDetached == [started |-> FALSE, callers |-> <<>>]

\* A call of the router's middleware that has not been made yet
NoDispatch ==
    [phase |-> "idle", ctx |-> NoContext, gens |-> <<>>, stack |-> <<>>, mode |-> "none",
     pending |-> <<>>, log |-> <<>>, outerNext |-> <<>>, visited |-> <<>>,
     stopped |-> FALSE, detached |-> NotDetached]

\* new Router(opts), opts.strictSlashes drawn from strict
Construct(strict) ==
    /\ nodes = <<NewNode(RootSegment)>>
    /\ strictSlashes \in strict
    /\ regs = <<>>
    /\ created = <<>>
    /\ phase = "idle"
    /\ ctx = NoContext
    /\ gens = <<>>
    /\ stack = <<>>
    /\ mode = "none"
    /\ pending = <<>>
    /\ log = <<>>
    /\ outerNext = <<>>
    /\ visited = <<>>
    /\ stopped = FALSE
    /\ detached = NotDetached
    /\ other = NoDispatch

Init == Construct(BOOLEAN)

\* The tree after a findOrCreateNode call that returned r
NodeCreated(path, r) ==
    /\ nodes' = r.ns
    /\ created' = Append(created, [path |-> path, node |-> r.node])

\* rootNode.findOrCreateNode(path), the returned node kept in created
FindOrCreateNode(path) ==
    /\ phase = "idle"
    /\ Len(created) < MaxCalls
    /\ NodeCreated(path, findOrCreateNode(nodes, rootNode, path))
    /\ UNCHANGED <<strictSlashes, regs, dispatchVars>>

\* Handler identities: the handlers of the k-th registration call are numbered
\* after those of the calls before it
HandlerCount ==
    LET given == UNION {{regs[i].handlers[j] : j \in 1..Len(regs[i].handlers)} :
                        i \in 1..Len(regs)}
    IN  IF given = {} THEN 0 ELSE CHOOSE h \in given : \A k \in given : k <= h

NewHandlers(count) == [i \in 1..count |-> HandlerCount + i]

\* What is remembered of a registration call: its arguments, the pattern it
\* registers at, whether it returned (ok) and the node it registered at, g being
\* what getNode returns for the pattern afterwards
Registration(op, method, path, pattern, stage, handlers, g) ==
    [op |-> op, method |-> method, path |-> path, pattern |-> pattern, stage |-> stage,
     handlers |-> handlers, ok |-> ~g.error, node |-> g.node]

\* The router after a registration call that leaves the heap ns
Registered(op, method, path, pattern, stage, handlers, ns) ==
    /\ nodes' = ns
    /\ regs' = Append(regs, Registration(op, method, path, pattern, stage, handlers,
                                         getNode(ns, pattern, FALSE)))

\* router.addMiddleware(method, path, stage, ...middleware)
AddMiddleware(method, path, stage, count) ==
    /\ phase = "idle"
    /\ Len(regs) < MaxRegs
    /\ Registered("addMiddleware", method, path, path, stage, NewHandlers(count),
                  addMiddleware(nodes, method, path, stage, NewHandlers(count)))
    /\ UNCHANGED <<strictSlashes, created, dispatchVars>>

\* router.addTerminator(method, path, stage, ...middleware)
AddTerminator(method, path, stage, count) ==
    /\ phase = "idle"
    /\ Len(regs) < MaxRegs
    /\ Registered("addTerminator", method, path, path, stage, NewHandlers(count),
                  addTerminator(nodes, method, path, stage, NewHandlers(count)))
    /\ UNCHANGED <<strictSlashes, created, dispatchVars>>

\* What is remembered of a helper call: the helper, the stage argument as it
\* was given, the handlers passed, whether it returned (ok), r being what
\* addMiddlewareHelper did
HelperCalled(helper, path, stage, handlers, r) ==
    /\ nodes' = r.ns
    /\ regs' = Append(regs, [op |-> helper, method |-> HelperMethod(helper), path |-> path,
                             pattern |-> path, stage |-> stage, handlers |-> handlers,
                             ok |-> ~r.error, node |-> getNode(r.ns, path, FALSE).node])

\* router.<helper>(path, stage, ...middleware) with a number as stage
HelperWithStage(helper, path, stage, count) ==
    /\ phase = "idle"
    /\ Len(regs) < MaxRegs
    /\ HelperCalled(helper, path, NumberArg(stage), NewHandlers(count),
                    addMiddlewareHelper(nodes, HelperMethod(helper), path, NumberArg(stage),
                                        NewHandlers(count)))
    /\ UNCHANGED <<strictSlashes, created, dispatchVars>>

\* router.<helper>(path, ...middleware): the first middleware, if there is one,
\* arrives in the place of the stage
HelperWithoutStage(helper, path, count) ==
    /\ phase = "idle"
    /\ Len(regs) < MaxRegs
    /\ HelperCalled(helper, path, UndefinedArg, NewHandlers(count),
                    addMiddlewareHelper(nodes, HelperMethod(helper), path,
                                        IF count = 0 THEN UndefinedArg
                                        ELSE FunctionArg(Head(NewHandlers(count))),
                                        IF count = 0 THEN <<>>
                                        ELSE Tail(NewHandlers(count))))
    /\ UNCHANGED <<strictSlashes, created, dispatchVars>>

\* The pattern use() registers at: the path without one trailing '*'
UsePattern(path) ==
    IF EndsWith(path, <<"*">>) THEN SubstrLen(path, 0, Len(path) - 1) ELSE path

\* router.use(path, stage, ...middleware)
Use(path, stage, count) ==
    /\ phase = "idle"
    /\ Len(regs) < MaxRegs
    /\ Registered("use", MIDDLEWARE, path, UsePattern(path), stage, NewHandlers(count),
                  use(nodes, path, stage, NewHandlers(count)))
    /\ UNCHANGED <<strictSlashes, created, dispatchVars>>

\* router.use(path, ...middleware): the first middleware arrives in the place
\* of the stage
UseWithoutStage(path, count) ==
    /\ phase = "idle"
    /\ Len(regs) < MaxRegs
    /\ Registered("use without stage", MIDDLEWARE, path, UsePattern(path),
                  DecidedStage(FunctionArg(Head(NewHandlers(count)))), NewHandlers(count),
                  useCall(nodes, path, FunctionArg(Head(NewHandlers(count))),
                          Tail(NewHandlers(count))))
    /\ UNCHANGED <<strictSlashes, created, dispatchVars>>

\* A router that keeps the terminators collected on the walk on itself: a call
\* starts from what the suspended call has collected
DispatchSharing(method, path, pre) ==
    /\ phase = "idle"
    /\ phase' = "running"
    /\ ctx' = [method |-> method, path |-> path, hasParams |-> pre.has,
               params |-> pre.params, before |-> pre]
    /\ gens' = <<[NewGenerator(nodes, rootNode, path, 1) EXCEPT !.terminatorMiddleware =
                    IF other.gens # <<>> THEN other.gens[1].terminatorMiddleware ELSE <<>>]>>
    /\ stack' = <<>>
    /\ mode' = "pull"
    /\ pending' = <<>>
    /\ log' = <<>>
    /\ outerNext' = <<>>
    /\ visited' = <<>>
    /\ stopped' = FALSE
    /\ detached' = NotDetached
    /\ UNCHANGED <<routerVars, other>>

\* router.middleware()(ctx, next) up to the runner's first await, for a request
\* whose ctx.params is pre before the router sees it
Dispatch(method, path, pre) ==
    /\ phase = "idle"
    /\ phase' = "running"
    /\ ctx' = [method |-> method, path |-> path, hasParams |-> pre.has,
               params |-> pre.params, before |-> pre]
    /\ gens' = <<NewGenerator(nodes, rootNode, path, 1)>>
    /\ stack' = <<>>
    /\ mode' = "pull"
    /\ pending' = <<>>
    /\ log' = <<>>
    /\ outerNext' = <<>>
    /\ visited' = <<>>
    /\ stopped' = FALSE
    /\ detached' = NotDetached
    /\ UNCHANGED <<routerVars, other>>

\* The frames of the call stack
HandlerFrame(h) ==
    [type |-> "handler", h |-> h, name |-> <<>>, old |-> Undefined, new |-> Undefined,
     depth |-> 0]

WrapperFrame(type, name, old, new, depth) ==
    [type |-> type, h |-> 0, name |-> name, old |-> old, new |-> new, depth |-> depth]

\* The middlewareValueWrapper calls whose wrappedNext the innermost runner was
\* given, outermost first: those awaiting it, and ("closure") those a handler
\* left behind when it called next() without awaiting it
Wrappers(st) == SelectSeq(st, LAMBDA f : f.type \in {"wrapper", "closure"})

\* A wrappedNext that leaves the value as it is
RestoreNothing(params, ws) == params

\* setter(oldValue) of each wrappedNext on the way out, innermost first
RECURSIVE RestoreOld(_, _)
RestoreOld(params, ws) ==
    IF ws = <<>> THEN params
    ELSE RestoreOld(SetParam(params, ws[Len(ws)].name, ws[Len(ws)].old),
                    SubSeq(ws, 1, Len(ws) - 1))

\* The wrappedNext frames entered on the way out, innermost first
WrappedNextFrames(ws) ==
    [i \in 1..Len(ws) |->
        [ws[Len(ws) + 1 - i] EXCEPT !.type = "wrappedNext"]]

\* The runner got a group: `middleware.value`, empty or not
Yielded(d, r) ==
    /\ gens' = [gens EXCEPT ![d] = r.g]
    /\ pending' = r.group
    /\ mode' = IF r.group = <<>> THEN "pull" ELSE "invoke"
    /\ UNCHANGED <<stack, ctx, outerNext>>

\* The generator awaits middlewareValueWrapper for the parameter route param:
\* setter(newValue), then handleNodePath on the route's tree with the rest of
\* the path
ParamMatched(d, r, param) ==
    /\ gens' = Append([gens EXCEPT ![d] = r.g],
                      NewGenerator(nodes, param.rootNode,
                                   Substr(r.g.current.remainingPath, Len(r.value)), d + 1))
    /\ stack' = Append(stack, WrapperFrame("wrapper", param.name,
                                           GetParam(ctx.params, param.name), r.value, d))
    /\ ctx' = [ctx EXCEPT !.hasParams = TRUE,
                          !.params = SetParam(@, param.name, r.value)]
    /\ UNCHANGED <<pending, mode, outerNext>>

\* The generator returns next(): every wrappedNext on the way out calls
\* setter(oldValue), then the next given to the router is called; ws are the
\* middlewareValueWrapper calls in progress
NextReturned(d, r, ws) ==
    /\ gens' = [gens EXCEPT ![d] = r.g]
    /\ stack' = stack \o WrappedNextFrames(ws)
    /\ ctx' = [ctx EXCEPT !.params = RestoreOld(@, ws)]
    /\ outerNext' = Append(outerNext, [hasParams |-> ctx.hasParams,
                                       params |-> RestoreOld(ctx.params, ws)])
    /\ mode' = "unwind"
    /\ UNCHANGED pending

\* The generator is done: `if (middleware.done) return`
Returned(d, r) ==
    /\ gens' = [gens EXCEPT ![d] = r.g]
    /\ mode' = "unwind"
    /\ UNCHANGED <<stack, ctx, pending, outerNext>>

\* What the runner and the generator do with the outcome r of the generator d
Runner(d, r) ==
    /\ visited' = visited \o r.visits
    /\ nodes' = HeapAfterVisits(nodes, r.visits, ctx.method, strictSlashes)
    /\ CASE r.kind = "yield" -> Yielded(d, r)
         [] r.kind = "param" ->
                ParamMatched(d, r,
                    orderedData(nodes[r.g.current.node].data.lateParams)[r.param])
         [] r.kind = "return next" -> NextReturned(d, r, Wrappers(stack))
         [] r.kind = "return" -> Returned(d, r)

\* middlewareGeneratorRunner: `await middlewareGenerator.next()` of the innermost
\* generator and what the runner or the generator does with the outcome
RunnerPull ==
    /\ phase = "running"
    /\ mode = "pull"
    /\ \E r \in {GenResume(nodes, gens[Len(gens)], ctx.method, strictSlashes, <<>>)} :
          Runner(Len(gens), r)
    /\ UNCHANGED <<strictSlashes, regs, created, other, detached, phase, log, stopped>>

\* What is recorded when a handler is invoked: the handler, the node whose group
\* it belongs to, ctx.params as it sees them, the parameters bound around it and
\* whether it calls its next
Invocation(h, next) ==
    [h |-> h, next |-> next, visit |-> Len(visited), params |-> ctx.params,
     scope |-> [i \in 1..Len(Wrappers(stack)) |->
                   [name |-> Wrappers(stack)[i].name, value |-> Wrappers(stack)[i].new]]]

\* The next handler of the group is invoked and calls its next()
HandlerCallsNext ==
    /\ phase = "running"
    /\ mode = "invoke"
    /\ log' = Append(log, Invocation(Head(pending), TRUE))
    /\ stack' = Append(stack, HandlerFrame(Head(pending)))
    /\ pending' = Tail(pending)
    /\ mode' = IF Tail(pending) = <<>> THEN "pull" ELSE "invoke"
    /\ UNCHANGED <<routerVars, other, detached, phase, ctx, gens, outerNext, visited, stopped>>

\* A runner that goes on with the rest of the group and of the generator
\* although the handler returned without calling next()
HandlerReturnsRunnerGoesOn ==
    /\ phase = "running"
    /\ mode = "invoke"
    /\ log' = Append(log, Invocation(Head(pending), FALSE))
    /\ stopped' = TRUE
    /\ pending' = Tail(pending)
    /\ mode' = IF Tail(pending) = <<>> THEN "pull" ELSE "invoke"
    /\ UNCHANGED <<routerVars, other, detached, phase, ctx, gens, stack, outerNext, visited>>

\* The next handler of the group is invoked and returns without calling next()
HandlerReturns ==
    /\ phase = "running"
    /\ mode = "invoke"
    /\ log' = Append(log, Invocation(Head(pending), FALSE))
    /\ stopped' = TRUE
    /\ mode' = "unwind"
    /\ UNCHANGED <<routerVars, other, detached, phase, ctx, gens, stack, pending, outerNext, visited>>

\* The innermost pending call returns: a handler after its next() resolved, a
\* wrappedNext after `await next()` (setter(newValue)), or middlewareValueWrapper
\* after its callback (setter(oldValue)), which resumes the generator awaiting it
Unwind ==
    /\ phase = "running"
    /\ mode = "unwind"
    /\ stack # <<>>
    /\ LET f == stack[Len(stack)]
       IN  /\ stack' = SubSeq(stack, 1, Len(stack) - 1)
           /\ ctx' = CASE f.type = "wrappedNext" ->
                             [ctx EXCEPT !.params = SetParam(@, f.name, f.new)]
                       [] f.type = "wrapper" ->
                             [ctx EXCEPT !.params = SetParam(@, f.name, f.old)]
                       [] OTHER -> ctx
           /\ gens' = IF f.type = "wrapper" THEN SubSeq(gens, 1, f.depth) ELSE gens
           /\ mode' = IF f.type = "wrapper" THEN "pull" ELSE mode
    /\ UNCHANGED <<routerVars, other, detached, phase, pending, log, outerNext, visited, stopped>>

\* The promise returned by the router's middleware resolves
Complete ==
    /\ phase = "running"
    /\ mode = "unwind"
    /\ stack = <<>>
    /\ detached.callers = <<>>
    /\ phase' = "done"
    /\ UNCHANGED <<routerVars, other, detached, ctx, gens, stack, mode, pending, log, outerNext, visited,
                   stopped>>

\* The next handler of the group is invoked and throws: the promise the runner
\* awaits rejects
HandlerThrows ==
    /\ phase = "running"
    /\ mode = "invoke"
    /\ log' = Append(log, Invocation(Head(pending), FALSE))
    /\ stopped' = TRUE
    /\ mode' = "throw"
    /\ UNCHANGED <<routerVars, other, detached, phase, ctx, gens, stack, pending, outerNext, visited>>

\* The generator returns next() and the next given to the router throws: every
\* wrappedNext on the way out has called setter(oldValue), none gets to
\* setter(newValue)
NextThrows(d, r) ==
    /\ r.kind = "return next"
    /\ visited' = visited \o r.visits
    /\ nodes' = HeapAfterVisits(nodes, r.visits, ctx.method, strictSlashes)
    /\ gens' = [gens EXCEPT ![d] = r.g]
    /\ stack' = stack \o WrappedNextFrames(Wrappers(stack))
    /\ ctx' = [ctx EXCEPT !.params = RestoreOld(@, Wrappers(stack))]
    /\ outerNext' = Append(outerNext, [hasParams |-> ctx.hasParams,
                                       params |-> RestoreOld(ctx.params, Wrappers(stack))])
    /\ mode' = "throw"
    /\ UNCHANGED pending

OuterNextThrows ==
    /\ phase = "running"
    /\ mode = "pull"
    /\ NextThrows(Len(gens), GenResume(nodes, gens[Len(gens)], ctx.method, strictSlashes, <<>>))
    /\ UNCHANGED <<strictSlashes, regs, created, other, detached, phase, log, stopped>>

\* The exception leaves the innermost pending call: a handler awaiting its
\* next(), a wrappedNext at `await next()`, or middlewareValueWrapper at `await
\* callback(...)`, whose generator ends with it.  No statement after the await
\* runs, so no setter is called.
Rethrow ==
    /\ phase = "running"
    /\ mode = "throw"
    /\ stack # <<>>
    /\ stack' = SubSeq(stack, 1, Len(stack) - 1)
    /\ gens' = IF stack[Len(stack)].type = "wrapper"
               THEN SubSeq(gens, 1, stack[Len(stack)].depth) ELSE gens
    /\ UNCHANGED <<routerVars, other, detached, phase, ctx, mode, pending, log, outerNext, visited, stopped>>

\* The promise returned by the router's middleware rejects
Fail ==
    /\ phase = "running"
    /\ mode = "throw"
    /\ stack = <<>>
    /\ phase' = "failed"
    /\ UNCHANGED <<routerVars, other, detached, ctx, gens, stack, mode, pending, log, outerNext, visited,
                   stopped>>

\* The handlers left behind keep only the wrappedNext they were given
Closures(st) ==
    [i \in 1..Len(Wrappers(st)) |-> [Wrappers(st)[i] EXCEPT !.type = "closure"]]

\* The next handler of the group is invoked, calls its next() without awaiting
\* it and returns: the runner it started goes on by itself with the wrappedNext
\* it was given, while the calls that awaited the handler return
HandlerCallsNextDetached ==
    /\ phase = "running"
    /\ mode = "invoke"
    /\ ~detached.started
    /\ log' = Append(log, Invocation(Head(pending), TRUE))
    /\ detached' = [started |-> TRUE, callers |-> stack]
    /\ stack' = Closures(stack)
    /\ pending' = Tail(pending)
    /\ mode' = IF Tail(pending) = <<>> THEN "pull" ELSE "invoke"
    /\ UNCHANGED <<routerVars, other, phase, ctx, gens, outerNext, visited, stopped>>

\* The innermost call that awaited the handler returns: a handler, or
\* middlewareValueWrapper after its callback (setter(oldValue)), whose generator
\* then returns
CallerReturns ==
    /\ phase = "running"
    /\ detached.callers # <<>>
    /\ detached' = [detached EXCEPT !.callers = SubSeq(@, 1, Len(@) - 1)]
    /\ ctx' = IF detached.callers[Len(detached.callers)].type = "wrapper"
              THEN [ctx EXCEPT !.params =
                        SetParam(@, detached.callers[Len(detached.callers)].name,
                                 detached.callers[Len(detached.callers)].old)]
              ELSE ctx
    /\ UNCHANGED <<routerVars, other, phase, gens, stack, mode, pending, log, outerNext, visited,
                   stopped>>

\* The request is over; the router waits for the next call
Reset ==
    /\ phase \in {"done", "failed"}
    /\ phase' = "idle"
    /\ ctx' = NoContext
    /\ gens' = <<>>
    /\ stack' = <<>>
    /\ mode' = "none"
    /\ pending' = <<>>
    /\ log' = <<>>
    /\ outerNext' = <<>>
    /\ visited' = <<>>
    /\ stopped' = FALSE
    /\ detached' = NotDetached
    /\ UNCHANGED <<routerVars, other>>
\* The event loop goes on with the other call of the router's middleware: the
\* running one stays suspended at its await, with its ctx and its generators
Switch ==
    /\ phase # "idle" \/ other.phase # "idle"
    /\ other' = [phase |-> phase, ctx |-> ctx, gens |-> gens, stack |-> stack,
                 mode |-> mode, pending |-> pending, log |-> log,
                 outerNext |-> outerNext, visited |-> visited, stopped |-> stopped,
                 detached |-> detached]
    /\ phase' = other.phase
    /\ ctx' = other.ctx
    /\ gens' = other.gens
    /\ stack' = other.stack
    /\ mode' = other.mode
    /\ pending' = other.pending
    /\ log' = other.log
    /\ outerNext' = other.outerNext
    /\ visited' = other.visited
    /\ stopped' = other.stopped
    /\ detached' = other.detached
    /\ UNCHANGED routerVars


-----------------------------------------------------------------------------
(* Node alone: findOrCreateNode calls on one root                          *)

\* The string of a path written with one character per element
NodePaths == { <<"/", "a", "a">>, <<"/", "a", "b">>, <<"/", "b">>, <<"/", "a">> }

NextNode == \E path \in NodePaths : FindOrCreateNode(path)

SpecNode == Construct({FALSE}) /\ [][NextNode]_vars

\* C8: after any sequence of findOrCreateNode calls on one root, find(p) returns,
\* for every path p that was passed to findOrCreateNode, the very node that call
\* returned, and returns null for a path that shares no stored prefix node.
C8_FindReturnsCreated ==
    /\ \A i \in 1..Len(created) : find(nodes, rootNode, created[i].path) = created[i].node
    /\ find(nodes, rootNode, <<"x">>) = 0

-----------------------------------------------------------------------------
(* Router: registrations on two literal patterns, requests GET /a          *)

Stages == {0, 1}

OrderPatterns == { <<"/">>, <<"/", "a">> }

OrderUsePaths == { <<"/">>, <<"/", "*">>, <<"/", "a">>, <<"/", "a", "*">> }

NextOrder ==
    \/ \E method \in {MIDDLEWARE, "GET", ALL}, path \in OrderPatterns, stage \in Stages :
          AddMiddleware(method, path, stage, 1)
    \/ \E method \in {"GET", ALL}, stage \in Stages :
          AddTerminator(method, <<"/", "a">>, stage, 1)
    \/ \E path \in OrderUsePaths : Use(path, 0, 1)
    \/ Dispatch("GET", <<"/", "a">>, NoParams)
    \/ RunnerPull
    \/ HandlerCallsNext
    \/ HandlerReturns
    \/ Unwind
    \/ Complete
    \/ Reset

SpecOrder == Construct({FALSE}) /\ [][NextOrder]_vars

-----------------------------------------------------------------------------
(* Router: routes with parameters, requests GET /1 and GET /1/2            *)

ParamPatterns ==
    { <<"/", ":", "i">>,
      <<"/", ":", "i", "/", ":", "i">>,
      <<"/", ":", "i", "/", ":", "j">> }

\* ctx.params before the router is called: absent, or set by someone else
ParamsBefore == { NoParams, [has |-> TRUE, params |-> [n \in {<<"i">>} |-> <<"x">>]] }

NextParam ==
    \/ \E path \in {<<"/">>, <<"/", ":", "i">>} : AddMiddleware(MIDDLEWARE, path, 0, 1)
    \/ \E path \in ParamPatterns : AddTerminator("GET", path, 0, 1)
    \/ Use(<<"/">>, 0, 1)
    \/ \E path \in {<<"/", "1">>, <<"/", "1", "/", "2">>}, pre \in ParamsBefore :
          Dispatch("GET", path, pre)
    \/ RunnerPull
    \/ HandlerCallsNext
    \/ HandlerReturns
    \/ Unwind
    \/ Complete
    \/ Reset

SpecParam == Construct({FALSE}) /\ [][NextParam]_vars

-----------------------------------------------------------------------------
(* Router: literal routes that share prefixes, requests on and next to them *)

TreePatterns ==
    { <<"/", "a">>, <<"/", "a", "a">>, <<"/", "a", "b">>, <<"/", "b">>,
      <<"/", "a", "/", "b">>, <<"/", "a", "/", "c">> }

TreeRequests ==
    TreePatterns \cup { <<"/", "a", "/">>, <<"/", "b", "/">>, <<"/", "a", "-">> }

NextTree ==
    \/ \E path \in TreePatterns : AddTerminator("GET", path, 0, 1)
    \/ Use(<<"/", "a", "*">>, 0, 1)
    \/ \E path \in TreeRequests : Dispatch("GET", path, NoParams)
    \/ RunnerPull
    \/ HandlerCallsNext
    \/ HandlerReturns
    \/ Unwind
    \/ Complete
    \/ Reset

SpecTree == Init /\ [][NextTree]_vars

-----------------------------------------------------------------------------
(* The vocabulary of the properties                                        *)

IsPrefix(a, b) == Len(a) <= Len(b) /\ SubSeq(b, 1, Len(a)) = a

Members(seq) == {seq[i] : i \in 1..Len(seq)}

\* The handlers invoked so far in the group of the k-th visited node, in order
InvokedAt(k) ==
    LET entries == SelectSeq(log, LAMBDA e : e.visit = k)
    IN  [i \in 1..Len(entries) |-> entries[i].h]

\* The handlers of a method's middleware / terminators on a node, in local order
Middleware(node, method) ==
    IF HasMethodData(nodes[node].data, method)
    THEN orderedData(nodes[node].data.methodData[method].middleware) ELSE <<>>

Terminators(node, method) ==
    IF HasMethodData(nodes[node].data, method)
    THEN orderedData(nodes[node].data.methodData[method].terminators) ELSE <<>>

\* A visited node is on a segment boundary: the walk ends there, its label ends
\* with "/", or the label of the node visited next begins with "/"
SegmentBoundary(v) ==
    \/ v.nextNode = 0
    \/ EndsWith(nodes[v.node].segment, <<"/">>)
    \/ StartsWith(nodes[v.nextNode].segment, <<"/">>)

\* The method whose terminators answer the request at a node
MethodAt(node) == EffectiveMethod(nodes[node].data, ctx.method)

\* The terminators of the final node: the method's and those for ALL
FinalTerminators(node) ==
    Members(Terminators(node, MethodAt(node))) \cup Members(Terminators(node, ALL))

\* The handlers of the final node that belong to the merged middleware group
FinalMiddleware(node) ==
    Members(Middleware(node, MIDDLEWARE)) \cup Members(Terminators(node, MIDDLEWARE))
        \cup Members(Middleware(node, MethodAt(node))) \cup Members(Middleware(node, ALL))

\* The stable merge by stage of StagedArrays, ties in the order of the arrays
StableMerge(stagedArrays) ==
    LET tuples == SortByStage(ConcatStagedData(stagedArrays))
    IN  [i \in 1..Len(tuples) |-> tuples[i][2]]

\* The StagedArray in a sequence of its own if it holds anything
NonEmpty(sa) == IF length(sa) > 0 THEN <<sa>> ELSE <<>>

MiddlewareSA(node, method) ==
    IF HasMethodData(nodes[node].data, method)
    THEN NonEmpty(nodes[node].data.methodData[method].middleware) ELSE <<>>

TerminatorsSA(node, method) ==
    IF HasMethodData(nodes[node].data, method)
    THEN NonEmpty(nodes[node].data.methodData[method].terminators) ELSE <<>>

\* The MIDDLEWARE terminators of the segment-boundary nodes visited before the
\* k-th visit, in visiting order
RECURSIVE AccumulatedBefore(_)
AccumulatedBefore(k) ==
    IF k <= 1 THEN <<>>
    ELSE AccumulatedBefore(k - 1)
         \o (IF SegmentBoundary(visited[k - 1]) /\ ~visited[k - 1].final
             THEN TerminatorsSA(visited[k - 1].node, MIDDLEWARE) ELSE <<>>)

\* The handlers to run before the terminators when the k-th visit is final
ExpectedMerged(k) ==
    LET node == visited[k].node
    IN  StableMerge(MiddlewareSA(node, MIDDLEWARE)
                    \o AccumulatedBefore(k)
                    \o TerminatorsSA(node, MIDDLEWARE)
                    \o (IF HeadFallback(nodes[node].data, ctx.method)
                        THEN MiddlewareSA(node, ctx.method) ELSE <<>>)
                    \o MiddlewareSA(node, MethodAt(node))
                    \o MiddlewareSA(node, ALL))

-----------------------------------------------------------------------------
(* Properties                                                              *)

\* C1: when a dispatch reaches a final node with a terminator for the request
\* method (after the HEAD fallback) or for ALL, the handlers run before the
\* terminators are exactly the stable stage-merge of the final node's MIDDLEWARE
\* middleware, the MIDDLEWARE terminators of the nodes visited earlier, the final
\* node's MIDDLEWARE terminators, the HEAD middleware on fallback, the method's
\* middleware and the ALL middleware.
C1_MergedGroup ==
    (phase = "done" /\ ~stopped) =>
        \A k \in 1..Len(visited) :
            visited[k].final =>
                SelectSeq(InvokedAt(k),
                          LAMBDA h : h \notin FinalTerminators(visited[k].node))
                    = ExpectedMerged(k)

\* C2: the MIDDLEWARE middleware of every segment-boundary node visited before
\* the final node is invoked as soon as the node is visited, root to leaf and in
\* the node's local stage order, before any handler of the final node; also when
\* the request matches no terminator, and then the outer next is called.
C2_ImmediateMiddleware ==
    /\ \A i, j \in 1..Len(log) : i < j => log[i].visit <= log[j].visit
    /\ \A k \in 1..Len(visited) :
          (SegmentBoundary(visited[k]) /\ ~visited[k].final) =>
              /\ IsPrefix(InvokedAt(k), Middleware(visited[k].node, MIDDLEWARE))
              /\ (k < Len(visited) \/ outerNext # <<>>) =>
                    InvokedAt(k) = Middleware(visited[k].node, MIDDLEWARE)
    /\ (phase = "done" /\ ~stopped /\ \A k \in 1..Len(visited) : ~visited[k].final) =>
          Len(outerNext) = 1

\* C2 happens: a request that matched no terminator is over, the immediate
\* middleware of two different nodes was invoked and the outer next was called
C2_Witness ==
    /\ phase = "done"
    /\ \A k \in 1..Len(visited) : ~visited[k].final
    /\ \E i, j \in 1..Len(log) : log[i].visit < log[j].visit
    /\ Len(outerNext) = 1

\* C3: at a final node with terminators, the method's terminators run in their
\* local order after every handler of the merged group has called next, and the
\* ALL terminators run in their local order only after every method terminator
\* has called next; no ALL terminator runs before a method terminator.
C3_TerminatorOrder ==
    \A k \in 1..Len(visited) :
        visited[k].final =>
            LET node == visited[k].node
                invoked == InvokedAt(k)
                mt == Terminators(node, MethodAt(node))
                at == Terminators(node, ALL)
                first == {i \in 1..Len(log) : log[i].visit = k /\ log[i].h \in FinalTerminators(node)}
            IN  /\ IsPrefix(SelectSeq(invoked, LAMBDA h : h \in Members(mt)), mt)
                /\ IsPrefix(SelectSeq(invoked, LAMBDA h : h \in Members(at)), at)
                /\ \A i, j \in 1..Len(invoked) :
                      (i < j /\ invoked[i] \in FinalTerminators(node)) =>
                          invoked[j] \in FinalTerminators(node)
                /\ \A i, j \in 1..Len(invoked) :
                      (invoked[i] \in Members(at) /\ invoked[j] \in Members(mt)) => j < i
                /\ (\E i \in 1..Len(invoked) : invoked[i] \in Members(at)) =>
                      \A h \in Members(mt) :
                          \E i \in 1..Len(log) : log[i].h = h /\ log[i].visit = k /\ log[i].next
                /\ (first # {}) =>
                      /\ FinalMiddleware(node) \subseteq Members(invoked)
                      /\ \A i \in 1..Len(log) :
                            (\E j \in first : i < j) => log[i].next

\* C3 happens: a method terminator and then an ALL terminator ran at the final node
C3_Witness ==
    \E k \in 1..Len(visited) :
        /\ visited[k].final
        /\ \E i, j \in 1..Len(log) :
              /\ i < j
              /\ log[i].visit = k
              /\ log[j].visit = k
              /\ log[i].h \in Members(Terminators(visited[k].node, MethodAt(visited[k].node)))
              /\ log[j].h \in Members(Terminators(visited[k].node, ALL))

\* C4: if an invoked handler returns without calling its next, no handler later
\* in the dispatch order is invoked and the outer next is not called.
C4_StopsDispatch ==
    [][(stopped /\ phase' # "idle") =>
          (log' = log /\ outerNext' = outerNext /\ outerNext = <<>>)]_vars

\* C4 happens: a dispatch is over in which a handler returned without calling
\* next while handlers of its group, and a parameter below it, were still to come
C4_Witness ==
    /\ phase = "done"
    /\ stopped
    /\ Len(pending) >= 2
    /\ \E k \in 1..Len(visited) :
          length(nodes[visited[k].node].data.lateParams) > 0

\* C5: the outer next is called at most once in a dispatch, and exactly once if
\* and only if every handler that was invoked called its next (also when no
\* handler is invoked, and when all terminators of a matched route call next).
C5_OuterNextOnce ==
    /\ Len(outerNext) <= 1
    /\ phase = "done" =>
          (Len(outerNext) = 1 <=> \A i \in 1..Len(log) : log[i].next)

\* C5 happens: a dispatch is over in which a terminator inside a parameter's
\* sub-tree ran, every handler called next and the outer next was called
C5_Witness ==
    /\ phase = "done"
    /\ Len(outerNext) = 1
    /\ \E k \in 1..Len(visited) :
          /\ visited[k].final
          /\ visited[k].depth > 1
          /\ \E i \in 1..Len(log) : log[i].visit = k /\ log[i].next

\* The value of the innermost binding of a name among the bindings in scope
Innermost(scope, name) ==
    scope[CHOOSE i \in 1..Len(scope) :
            /\ scope[i].name = name
            /\ \A j \in 1..Len(scope) : scope[j].name = name => j <= i].value

\* The outer next sees ctx.params as they were before the dispatch
OuterNextSeesParamsBefore ==
    \A i \in 1..Len(outerNext) : outerNext[i].params = ctx.before.params

\* C6 as stated: every handler invoked inside a parameter's sub-tree observes
\* ctx.params[name] equal to the value that parameter captured, for every
\* parameter bound around it, and inside the outer next ctx.params[name] is what
\* it was before the dispatch.
C6_EveryBindingObserved ==
    /\ \A i \in 1..Len(log) :
          \A b \in 1..Len(log[i].scope) :
              GetParam(log[i].params, log[i].scope[b].name) = log[i].scope[b].value
    /\ OuterNextSeesParamsBefore

\* C6 amended: every handler invoked inside a parameter's sub-tree observes, for
\* every name bound around it, the value captured by the innermost parameter of
\* that name, and inside the outer next ctx.params is what it was before the
\* dispatch.
C6_InnermostBindingObserved ==
    /\ \A i \in 1..Len(log) :
          \A b \in 1..Len(log[i].scope) :
              GetParam(log[i].params, log[i].scope[b].name)
                  = Innermost(log[i].scope, log[i].scope[b].name)
    /\ OuterNextSeesParamsBefore

\* C6 happens: a handler ran inside two nested parameters, the outer next was
\* called, and ctx.params held a value of one of the names before the dispatch
C6_Witness ==
    /\ \E i \in 1..Len(log) : Len(log[i].scope) = 2
    /\ Len(outerNext) = 1
    /\ ctx.before.has
    /\ \E i \in 1..Len(log) :
          \E b \in 1..Len(log[i].scope) : log[i].scope[b].name \in DOMAIN ctx.before.params

\* The handlers invoked so far in the dispatch
Invoked == {log[i].h : i \in 1..Len(log)}

\* The registrations of a terminator for a method of requests
Routes == {i \in 1..Len(regs) : regs[i].op = "addTerminator" /\ regs[i].ok}

\* C7: after any sequence of registrations of literal patterns, a request M P
\* still invokes the terminator registered for (M, P), and no terminator answers
\* a path it was not registered for (the same path, or with strictSlashes off the
\* path followed by "/").
C7_RoutesPersist ==
    \A i \in Routes :
        /\ (/\ phase = "done"
            /\ ~stopped
            /\ ctx.method = regs[i].method
            /\ ctx.path = regs[i].pattern) => regs[i].handlers[1] \in Invoked
        /\ regs[i].handlers[1] \in Invoked =>
              \/ ctx.path = regs[i].pattern
              \/ ~strictSlashes /\ ctx.path = regs[i].pattern \o <<"/">>

\* C9: with strictSlashes off, nothing registered at P + "/" and a terminator for
\* M at a pattern P that does not end in "/" (and that the request M P reaches), a
\* request M with path P + "/" invokes P's terminator.
C9_TrailingSlashMatches ==
    \A i \in Routes :
        (/\ ~strictSlashes
         /\ phase = "done"
         /\ ~stopped
         /\ ctx.method = regs[i].method
         /\ ctx.path = regs[i].pattern \o <<"/">>
         /\ ~EndsWith(regs[i].pattern, <<"/">>)
         /\ \A j \in 1..Len(regs) : regs[j].pattern # ctx.path
         /\ find(nodes, rootNode, regs[i].pattern) = regs[i].node)
        => regs[i].handlers[1] \in Invoked

\* C10: middleware registered with use(P + "*"), P a literal path not ending in
\* "/", is invoked for a request path R only when R is P or R continues after P
\* with "/".
C10_WildcardStopsAtBoundary ==
    \A i \in 1..Len(regs) :
        (/\ regs[i].op = "use"
         /\ EndsWith(regs[i].path, <<"*">>)
         /\ regs[i].handlers[1] \in Invoked)
        => \/ ctx.path = regs[i].pattern
           \/ StartsWith(ctx.path, regs[i].pattern \o <<"/">>)

\* C11: the MIDDLEWARE terminators registered on a node visited before a
\* parameter segment are invoked, in the group of the final node, when the final
\* node lies inside that parameter's sub-tree.
C11_AncestorTerminatorsInvoked ==
    (phase = "done" /\ ~stopped) =>
        \A k \in 1..Len(visited) :
            visited[k].final =>
                \A j \in 1..(k - 1) :
                    (/\ visited[j].depth < visited[k].depth
                     /\ SegmentBoundary(visited[j])
                     /\ ~visited[j].final)
                    => Members(Terminators(visited[j].node, MIDDLEWARE))
                           \subseteq Members(InvokedAt(k))

-----------------------------------------------------------------------------
(* Router: MIDDLEWARE /api, MIDDLEWARE terminator /, GET /api/user          *)

ApiPath == <<"/", "a", "p", "i">>
ApiUserPath == <<"/", "a", "p", "i", "/", "u", "s", "e", "r">>

NextApi ==
    \/ AddMiddleware(MIDDLEWARE, ApiPath, 0, 1)
    \/ AddTerminator(MIDDLEWARE, <<"/">>, 0, 1)
    \/ AddTerminator("GET", ApiUserPath, 0, 1)
    \/ Dispatch("GET", ApiUserPath, NoParams)
    \/ RunnerPull
    \/ HandlerCallsNext
    \/ HandlerReturns
    \/ Unwind
    \/ Complete
    \/ Reset

SpecApi == Construct({FALSE}) /\ [][NextApi]_vars

\* The handlers of the registrations op(method, pattern, ...) made so far
Registrants(op, method, pattern) ==
    {regs[i].handlers[1] : i \in {j \in 1..Len(regs) :
        regs[j].ok /\ regs[j].op = op /\ regs[j].method = method /\ regs[j].pattern = pattern}}

\* Handler a was invoked, and before handler b was
InvokedBefore(a, b) ==
    \E i, j \in 1..Len(log) : i < j /\ log[i].h = a /\ log[j].h = b

\* A request GET /api/user is over, all its handlers having called next, on a
\* router with A, T and U registered
ApiDispatched ==
    /\ phase = "done"
    /\ ~stopped
    /\ Registrants("addMiddleware", MIDDLEWARE, ApiPath) # {}
    /\ Registrants("addTerminator", MIDDLEWARE, <<"/">>) # {}
    /\ Registrants("addTerminator", "GET", ApiUserPath) # {}

-----------------------------------------------------------------------------
(* Router: HEAD and GET handlers on one node, requests HEAD /a and GET /a   *)

NextHead ==
    \/ \E method \in {"HEAD", "GET"}, stage \in Stages :
          AddMiddleware(method, <<"/", "a">>, stage, 1)
    \/ \E method \in {"HEAD", "GET", ALL} : AddTerminator(method, <<"/", "a">>, 0, 1)
    \/ \E stage \in Stages : Use(<<"/", "a">>, stage, 1)
    \/ \E method \in {"HEAD", "GET"} : Dispatch(method, <<"/", "a">>, NoParams)
    \/ RunnerPull
    \/ HandlerCallsNext
    \/ HandlerReturns
    \/ Unwind
    \/ Complete
    \/ Reset

SpecHead == Construct({FALSE}) /\ [][NextHead]_vars

\* C13: for a HEAD request whose final node has no HEAD terminators the GET
\* terminators are the method terminators that run; when the node has a HEAD
\* terminator, no GET terminator and no GET middleware is invoked for the HEAD
\* request, even if every HEAD terminator calls next.
C13_HeadFallback ==
    ctx.method = "HEAD" =>
        \A k \in 1..Len(visited) :
            LET node == visited[k].node
                get == Terminators(node, "GET")
            IN  /\ Terminators(node, "HEAD") # <<>> =>
                      Invoked \cap (Members(get) \cup Members(Middleware(node, "GET"))) = {}
                /\ (/\ Terminators(node, "HEAD") = <<>>
                    /\ get # <<>>
                    /\ visited[k].nextNode = 0
                    /\ visited[k].remainingPath = <<>>) =>
                      /\ visited[k].final
                      /\ IsPrefix(SelectSeq(InvokedAt(k), LAMBDA h : h \in Members(get)), get)
                      /\ (phase = "done" /\ ~stopped) => Members(get) \subseteq Invoked
                      /\ \A i, j \in 1..Len(log) :
                            (log[i].h \in Members(Terminators(node, ALL))
                             /\ log[j].h \in Members(get)) => j < i

\* C13 happens: a HEAD request is over on a node with HEAD middleware but no
\* HEAD terminator, and a GET terminator of the node was invoked
C13_Witness ==
    /\ phase = "done"
    /\ ctx.method = "HEAD"
    /\ \E k \in 1..Len(visited) :
          /\ visited[k].final
          /\ Terminators(visited[k].node, "HEAD") = <<>>
          /\ Middleware(visited[k].node, "HEAD") # <<>>
          /\ Members(Terminators(visited[k].node, "GET")) \cap Invoked # {}

\* The stage a handler was registered with
StageOf(h) ==
    regs[CHOOSE i \in 1..Len(regs) : h \in Members(regs[i].handlers)].stage

\* C14: when the HEAD fallback is taken, every middleware registered for HEAD on
\* the final node is still invoked, and for equal stages each HEAD middleware is
\* invoked before every GET middleware and after the node's MIDDLEWARE
\* terminators.
C14_HeadMiddlewareKept ==
    ctx.method = "HEAD" =>
        \A k \in 1..Len(visited) :
            (visited[k].final /\ HeadFallback(nodes[visited[k].node].data, "HEAD")) =>
                LET node == visited[k].node
                    head == Members(Middleware(node, "HEAD"))
                IN  /\ (\/ phase = "done" /\ ~stopped
                        \/ FinalTerminators(node) \cap Invoked # {}) =>
                          head \subseteq Members(InvokedAt(k))
                    /\ \A h \in head, g \in Members(Middleware(node, "GET")) :
                          (StageOf(h) = StageOf(g) /\ g \in Invoked) => InvokedBefore(h, g)
                    /\ \A h \in head, t \in Members(Terminators(node, MIDDLEWARE)) :
                          (StageOf(h) = StageOf(t) /\ h \in Invoked) => InvokedBefore(t, h)

\* C14 happens: on the fallback a HEAD middleware and a GET middleware of the
\* same stage were both invoked
C14_Witness ==
    /\ ctx.method = "HEAD"
    /\ \E k \in 1..Len(visited) :
          /\ visited[k].final
          /\ HeadFallback(nodes[visited[k].node].data, "HEAD")
          /\ \E h \in Members(Middleware(visited[k].node, "HEAD")),
                g \in Members(Middleware(visited[k].node, "GET")) :
                StageOf(h) = StageOf(g) /\ h \in Invoked /\ g \in Invoked

\* The handlers registered as MIDDLEWARE terminators on some node
MiddlewareTerminators ==
    UNION {Members(Terminators(n, MIDDLEWARE)) : n \in 1..Len(nodes)}

\* C15: a MIDDLEWARE terminator is invoked only in a dispatch whose final node
\* has a terminator for the request method (after the HEAD fallback) or for ALL;
\* when the final node has only MIDDLEWARE terminators none of them is invoked
\* and the outer next is called.
C15_MiddlewareNeverMatches ==
    /\ \A i \in 1..Len(log) :
          log[i].h \in MiddlewareTerminators =>
              /\ visited[log[i].visit].final
              /\ FinalTerminators(visited[log[i].visit].node) # {}
    /\ \A k \in 1..Len(visited) :
          (/\ visited[k].nextNode = 0
           /\ visited[k].remainingPath = <<>>
           /\ FinalTerminators(visited[k].node) = {}) =>
              /\ ~visited[k].final
              /\ Invoked \cap MiddlewareTerminators = {}
              /\ (phase = "done" /\ ~stopped) => Len(outerNext) = 1

\* C15 happens: a request is over whose last node has a MIDDLEWARE terminator
\* and no other terminator, and the outer next was called
C15_Witness ==
    /\ phase = "done"
    /\ Len(outerNext) = 1
    /\ \E k \in 1..Len(visited) :
          /\ visited[k].nextNode = 0
          /\ visited[k].remainingPath = <<>>
          /\ Terminators(visited[k].node, MIDDLEWARE) # <<>>
          /\ FinalTerminators(visited[k].node) = {}

-----------------------------------------------------------------------------
(* Router: several parameter branches and a literal child on one node       *)

BranchPatterns ==
    { <<"/", ":", "i">>,                                   \* /:i
      <<"/", ":", "j">>,                                   \* /:j
      <<"/", ":", "i", "/", "x">>,                         \* /:i/x
      <<"/", "1">>,                                        \* /1
      <<"/", ":", "n", "$", "-", "1", "(", "\\", "d", "+", ")">>,    \* /:n$-1(\d+)
      <<"/", ":", "r", "(", "\\", "d", "+", ")", "*", "x">>,         \* /:r(\d+)*x
      <<"/", ":", "d", "*">> }                             \* /:d*

BranchRequests ==
    { <<"/">>, <<"/", "1">>, <<"/", "a">>, <<"/", "1", "/", "x">>,
      <<"/", "1", "2", "x">>, <<"/", "a", "/", "b">> }

NextBranch ==
    \/ \E path \in BranchPatterns : AddTerminator("GET", path, 0, 1)
    \/ \E path \in BranchRequests : Dispatch("GET", path, NoParams)
    \/ RunnerPull
    \/ HandlerCallsNext
    \/ HandlerReturns
    \/ Unwind
    \/ Complete
    \/ Reset

SpecBranch == Construct({FALSE}) /\ [][NextBranch]_vars

\* The text of a path up to (excluding) its first "/"
UpToSlash(path) ==
    SubSeq(path, 1, CHOOSE n \in 0..Len(path) :
                        /\ \A i \in 1..n : path[i] # "/"
                        /\ n = Len(path) \/ path[n + 1] = "/")

\* The text a parameter branch looks at: the whole remaining path for a multi
\* branch, the text up to the next "/" otherwise
Candidate(param, remainingPath) ==
    IF param.matchAll THEN remainingPath ELSE UpToSlash(remainingPath)

\* The longest prefix of a text made of digits: what ^\d+ matches, if not empty
DigitPrefix(text) ==
    SubSeq(text, 1, CHOOSE n \in 0..Len(text) :
                        /\ \A i \in 1..n : text[i] \in Digits
                        /\ n = Len(text) \/ text[n + 1] \notin Digits)

\* The value a branch captures from a remaining path, the regex being \d+ if any
Captured(param, remainingPath) ==
    IF param.regex.has THEN DigitPrefix(Candidate(param, remainingPath))
    ELSE Candidate(param, remainingPath)

\* A branch accepts its candidate: the regex matches, or without a regex the
\* candidate is not empty
Accepted(param, remainingPath) == Captured(param, remainingPath) # <<>>

\* The parameter branches of the node of the k-th visit, in branch order
Branches(k) == orderedData(nodes[visited[k].node].data.lateParams)

\* The first branch of the k-th visit that accepts the remaining path; 0 if none
FirstAccepted(k) ==
    LET hits == {i \in 1..Len(Branches(k)) :
                    Accepted(Branches(k)[i], visited[k].remainingPath)}
    IN  IF hits = {} THEN 0 ELSE CHOOSE i \in hits : \A j \in hits : i <= j

\* The k-th visit dispatched a parameter branch: the next visit is the root of
\* a sub-tree
DispatchedBranch(k) ==
    k < Len(visited) /\ visited[k + 1].depth = visited[k].depth + 1

StagedPattern == <<"/", ":", "n", "$", "-", "1", "(", "\\", "d", "+", ")">>
PlainPattern == <<"/", ":", "i">>

\* C17: the parameter branches of a node are tried in ascending stage order,
\* ties in registration order, whatever the order the routes were registered
\* in: with /:n$-1(\d+) and /:i registered in either order, /1 dispatches into
\* the first route's sub-tree and /a into the second's.
C17_BranchesByStage ==
    /\ \A n \in 1..Len(nodes) :
          LET late == nodes[n].data.lateParams
          IN  /\ Len(late.orderedStagedData) = Len(late.stagedData)
              /\ \A i \in 1..Len(late.stagedData) :
                    late.orderedStagedData[i] = late.stagedData[i][2]
              /\ \A i, j \in 1..Len(late.stagedData) :
                    i < j =>
                        \/ late.stagedData[i][1] < late.stagedData[j][1]
                        \/ /\ late.stagedData[i][1] = late.stagedData[j][1]
                           /\ late.stagedData[i][2].rootNode < late.stagedData[j][2].rootNode
    /\ (phase = "done" /\ ~stopped /\ ctx.path = <<"/", "1">>) =>
          \A T \in Registrants("addTerminator", "GET", StagedPattern) :
              T \in Invoked /\ Registrants("addTerminator", "GET", PlainPattern) \cap Invoked = {}
    /\ (/\ phase = "done"
        /\ ~stopped
        /\ ctx.path = <<"/", "a">>
        /\ \A r \in 1..Len(regs) : regs[r].pattern \in {StagedPattern, PlainPattern}) =>
          \A T \in Registrants("addTerminator", "GET", PlainPattern) :
              T \in Invoked /\ Registrants("addTerminator", "GET", StagedPattern) \cap Invoked = {}

\* C17 happens: /:i was registered before /:n$-1(\d+), and the request /1 was
\* answered by the handler of /:n$-1(\d+)
C17_Witness ==
    /\ phase = "done"
    /\ ctx.path = <<"/", "1">>
    /\ \E a, b \in 1..Len(regs) :
          /\ a < b
          /\ regs[a].pattern = PlainPattern
          /\ regs[b].pattern = StagedPattern
          /\ regs[b].handlers[1] \in Invoked

\* The branch of a node whose sub-tree has the given root
BranchOf(node, root) ==
    LET od == orderedData(nodes[node].data.lateParams)
    IN  od[CHOOSE i \in 1..Len(od) : od[i].rootNode = root]

\* What holds of a step that enters the sub-dispatch of a branch with a regex:
\* d is the generator that awaits it, f the middlewareValueWrapper call
RegexBranchEntered(d, f, branch, remainingPath, innerPath) ==
    branch.regex.has =>
        /\ DigitPrefix(Candidate(branch, remainingPath)) # <<>>
        /\ f.new = DigitPrefix(Candidate(branch, remainingPath))
        /\ f.new \o innerPath = remainingPath
        /\ f.name = branch.name

PlainBranchEntered(f, branch, remainingPath, innerPath) ==
    ~branch.regex.has =>
        /\ f.name = branch.name
        /\ f.new # <<>>
        /\ f.new \o innerPath = remainingPath
        /\ branch.matchAll => f.new = remainingPath
        /\ ~branch.matchAll =>
              /\ "/" \notin Members(f.new)
              /\ innerPath = <<>> \/ innerPath[1] = "/"

\* C19: a parameter branch without a regex captures the text up to (excluding)
\* the next "/" when it is not multi and the whole remaining path when it is
\* multi, and is skipped when that text is empty: it never binds an empty value,
\* and a branch that is not multi never binds a value containing "/".
C19_PlainCapture ==
    [][(Len(gens) >= 1 /\ Len(gens') = Len(gens) + 1) =>
          PlainBranchEntered(stack'[Len(stack')],
              BranchOf(gens'[Len(gens)].current.node, gens'[Len(gens')].next.node),
              gens'[Len(gens)].current.remainingPath,
              gens'[Len(gens')].next.remainingPath)]_vars

\* C19 happens: the multi branch d captured a/b, the whole remaining path, and
\* the handler of its route was invoked
C19_Witness ==
    /\ \E i \in 1..Len(log) :
          log[i].scope = <<[name |-> <<"d">>, value |-> <<"a", "/", "b">>]>>
    /\ \E k \in 1..Len(visited) :
          visited[k].remainingPath = <<"a", "/", "b">> /\ DispatchedBranch(k)

-----------------------------------------------------------------------------
(* Router: handlers and an outer next that throw inside parameter sub-trees *)

ThrowPatterns == { <<"/", ":", "i">>, <<"/", ":", "i", "/", ":", "j">> }

NextThrow ==
    \/ \E path \in ThrowPatterns : AddTerminator("GET", path, 0, 1)
    \/ \E path \in {<<"/", "1">>, <<"/", "1", "/", "2">>}, pre \in ParamsBefore :
          Dispatch("GET", path, pre)
    \/ RunnerPull
    \/ OuterNextThrows
    \/ HandlerCallsNext
    \/ HandlerReturns
    \/ HandlerThrows
    \/ Unwind
    \/ Rethrow
    \/ Complete
    \/ Fail
    \/ Reset

SpecThrow == Construct({FALSE}) /\ [][NextThrow]_vars

\* C20: parameter bindings are restored on every exit path of a sub-dispatch:
\* if a handler inside a parameter's sub-tree, or the outer next reached through
\* it, throws, then when the exception leaves the router ctx.params[name] is
\* what it was before the dispatch, for every name.
C20_RestoredOnThrow ==
    phase = "failed" =>
        \A name \in (DOMAIN ctx.params) \cup (DOMAIN ctx.before.params) :
            GetParam(ctx.params, name) = GetParam(ctx.before.params, name)

-----------------------------------------------------------------------------
(* Router: a handler in a parameter's sub-tree that does not await its next *)

NextDetached ==
    \/ AddMiddleware(MIDDLEWARE, <<"/", ":", "i">>, 0, 1)
    \/ \E path \in ThrowPatterns : AddTerminator("GET", path, 0, 1)
    \/ \E path \in {<<"/", "1">>, <<"/", "1", "/", "2">>}, pre \in ParamsBefore :
          Dispatch("GET", path, pre)
    \/ RunnerPull
    \/ HandlerCallsNext
    \/ HandlerCallsNextDetached
    \/ HandlerReturns
    \/ Unwind
    \/ CallerReturns
    \/ Complete
    \/ Reset

SpecDetached == Construct({FALSE}) /\ [][NextDetached]_vars

\* ctx.params[name] is what it was before the dispatch, for every name
ParamsAsBefore ==
    \A name \in (DOMAIN ctx.params) \cup (DOMAIN ctx.before.params) :
        GetParam(ctx.params, name) = GetParam(ctx.before.params, name)

\* C21: for every interleaving of the handlers' continuations, also
\* when a handler calls next without waiting for it and the outer next
\* suspends, once the dispatch and every continuation it started are over
\* ctx.params[name] is what it was before the dispatch, for every name bound.
C21_RestoredAfterAll ==
    phase = "done" => ParamsAsBefore

-----------------------------------------------------------------------------
(* Node: the children of one node                                          *)

\* C22: after any sequence of findOrCreateNode calls on one root, no two
\* children of the same node have labels starting with the same character.
C22_DistinctFirstCharacters ==
    \A n \in 1..Len(nodes) :
        \A i, j \in 1..Len(nodes[n].children) :
            i # j => Head(nodes[nodes[n].children[i]].segment)
                        # Head(nodes[nodes[n].children[j]].segment)

-----------------------------------------------------------------------------
(* StagedArray: the middleware arrays of one node, filled at several stages *)

ArrayStages == {-1, 0, 1}

ArrayMethods == {"GET", ALL, MIDDLEWARE}

NextStaged ==
    \E method \in ArrayMethods, stage \in ArrayStages, count \in {1, 2} :
        AddMiddleware(method, <<"/">>, stage, count)

SpecStaged == Construct({FALSE}) /\ [][NextStaged]_vars

\* The StagedArray a method's middleware is kept in on the node of '/', a new
\* one if nothing was added for the method
ArrayOf(method) ==
    IF regs # <<>> /\ HasMethodData(nodes[regs[1].node].data, method)
    THEN nodes[regs[1].node].data.methodData[method].middleware
    ELSE EmptyStagedArray

\* The items added to the array of a method by the addData calls so far
AddedTo(method) ==
    UNION {Members(regs[i].handlers) : i \in {j \in 1..Len(regs) : regs[j].method = method}}

\* Items are numbered in the order they were added, those of one call in the
\* order of its arguments: a comes before b in stage and insertion order
InOrder(a, b) == StageOf(a) < StageOf(b) \/ (StageOf(a) = StageOf(b) /\ a < b)

\* C23: after any sequence of addData calls, orderedData lists all the added
\* items with stages non-decreasing, items of equal stage in insertion order
\* (those of one call in the order of its arguments), and length is the number
\* of items added.
C23_OrderedData ==
    \A method \in ArrayMethods :
        /\ Members(orderedData(ArrayOf(method))) = AddedTo(method)
        /\ length(ArrayOf(method)) = Cardinality(AddedTo(method))
        /\ Len(orderedData(ArrayOf(method))) = Cardinality(AddedTo(method))
        /\ \A i, j \in 1..Len(orderedData(ArrayOf(method))) :
              i < j => InOrder(orderedData(ArrayOf(method))[i],
                               orderedData(ArrayOf(method))[j])

\* An array got three calls: a stage, a greater one, then the first one again
\* with two items, which went between
C23_Witness ==
    \E method \in ArrayMethods :
        /\ Len(regs) = 3
        /\ \A i \in 1..3 : regs[i].method = method
        /\ regs[1].stage < regs[2].stage
        /\ regs[3].stage = regs[1].stage
        /\ Len(regs[3].handlers) = 2
        /\ orderedData(ArrayOf(method)) =
              regs[1].handlers \o regs[3].handlers \o regs[2].handlers

\* The sequences of different methods, none to all of them
MethodLists ==
    {l \in UNION {[1..n -> ArrayMethods] : n \in 0..3} :
        \A i, j \in 1..Len(l) : i # j => l[i] # l[j]}

\* The arrays of the methods of l, in that order
Arrays(l) == [i \in 1..Len(l) |-> ArrayOf(l[i])]

\* The place in l of the array item h was added to
ArrayIndex(l, h) ==
    CHOOSE i \in 1..Len(l) :
        l[i] = regs[CHOOSE k \in 1..Len(regs) : h \in Members(regs[k].handlers)].method

\* a comes before b in the stable merge by stage of the arrays of l
MergedInOrder(l, a, b) ==
    \/ StageOf(a) < StageOf(b)
    \/ /\ StageOf(a) = StageOf(b)
       /\ \/ ArrayIndex(l, a) < ArrayIndex(l, b)
          \/ ArrayIndex(l, a) = ArrayIndex(l, b) /\ a < b

\* merged is the stable merge by stage of the arrays of l
IsStableMerge(l, merged) ==
    /\ Members(merged) = UNION {AddedTo(l[i]) : i \in 1..Len(l)}
    /\ Len(merged) = Cardinality(Members(merged))
    /\ \A i, j \in 1..Len(merged) : i < j => MergedInOrder(l, merged[i], merged[j])

\* C24: StagedArray.sort([A1..An]) and A1.sortWith([A2..An]) return the stable
\* merge by stage of the arrays' items: every item of every array once, stages
\* non-decreasing, items of equal stage of an earlier array before those of a
\* later one and those of one array in insertion order; sort([]) is empty and
\* sortWith([]) is orderedData.
C24_SortIsStableMerge ==
    /\ \A l \in MethodLists :
          /\ IsStableMerge(l, StagedArraySort(Arrays(l)))
          /\ l # <<>> => IsStableMerge(l, sortWith(ArrayOf(l[1]), Tail(Arrays(l))))
    /\ StagedArraySort(<<>>) = <<>>
    /\ \A method \in ArrayMethods :
          sortWith(ArrayOf(method), <<>>) = orderedData(ArrayOf(method))

\* Two arrays hold items of one stage, the second was filled first, and a third
\* holds an item of a smaller stage added last: the merge takes the third, then
\* the first, then the second
C24_Witness ==
    /\ Len(regs) = 3
    /\ regs[1].method = ALL /\ regs[2].method = "GET" /\ regs[3].method = MIDDLEWARE
    /\ regs[1].stage = regs[2].stage
    /\ regs[3].stage < regs[1].stage
    /\ StagedArraySort(Arrays(<<"GET", ALL, MIDDLEWARE>>)) =
          regs[3].handlers \o regs[2].handlers \o regs[1].handlers

-----------------------------------------------------------------------------
(* Router: patterns with and without a trailing slash, both strictSlashes  *)

SlashPatterns ==
    { <<"/", "a">>, <<"/", "a", "/">>, <<"/", "a", "a", "/">>, <<"/", "b">>,
      <<"/", ":", "i">>, <<"/", ":", "i", "/">> }

SlashRequests ==
    { <<"/", "a">>, <<"/", "a", "/">>, <<"/", "a", "a">>, <<"/", "a", "a", "/">>,
      <<"/", "1">>, <<"/", "1", "/">> }

NextSlash ==
    \/ \E path \in SlashPatterns : AddTerminator("GET", path, 0, 1)
    \/ \E path \in SlashRequests : Dispatch("GET", path, NoParams)
    \/ RunnerPull
    \/ HandlerCallsNext
    \/ HandlerReturns
    \/ Unwind
    \/ Complete
    \/ Reset

SpecSlash == Construct(BOOLEAN) /\ [][NextSlash]_vars

\* The path is the pattern with each parameter (a colon and a one-letter name)
\* replaced by a non-empty text without a slash
RECURSIVE PatternIs(_, _)
PatternIs(pattern, path) ==
    IF pattern = <<>> THEN path = <<>>
    ELSE IF Head(pattern) = ":"
    THEN \E k \in 1..Len(path) :
            /\ \A i \in 1..k : path[i] # "/"
            /\ PatternIs(SubSeq(pattern, 3, Len(pattern)), SubSeq(path, k + 1, Len(path)))
    ELSE /\ path # <<>>
         /\ Head(path) = Head(pattern)
         /\ PatternIs(Tail(pattern), Tail(path))

\* The registration call that handler h was passed to
RegistrationOf(h) == regs[CHOOSE i \in 1..Len(regs) : h \in Members(regs[i].handlers)]

\* The patterns of the terminators invoked so far in this dispatch
InvokedTerminatorPatterns ==
    {RegistrationOf(log[i].h).pattern : i \in {j \in 1..Len(log) :
        /\ RegistrationOf(log[j].h).op = "addTerminator"
        /\ RegistrationOf(log[j].h).method # MIDDLEWARE}}

\* C25: with strictSlashes = true, a request with path P + '/' never invokes a
\* terminator registered at a pattern P that does not end in '/'; it matches
\* only terminators registered at the pattern P + '/' itself.
C25_StrictTrailingSlash ==
    (strictSlashes /\ phase # "idle" /\ EndsWith(ctx.path, <<"/">>)) =>
        \A pattern \in InvokedTerminatorPatterns :
            /\ ~(/\ ~EndsWith(pattern, <<"/">>)
                 /\ PatternIs(pattern, SubSeq(ctx.path, 1, Len(ctx.path) - 1)))
            /\ PatternIs(pattern, ctx.path)

\* C26: for both values of strictSlashes, a terminator registered at a pattern
\* ending in '/' is never invoked for a request whose path does not end in '/'.
C26_SlashPatternNeedsSlash ==
    (phase # "idle" /\ ~EndsWith(ctx.path, <<"/">>)) =>
        \A pattern \in InvokedTerminatorPatterns : ~EndsWith(pattern, <<"/">>)

\* Terminators are registered at '/a/' and at '/a', and a request GET /a is
\* over that invoked the one of '/a' alone
C26_Witness ==
    /\ phase = "done"
    /\ ctx.path = <<"/", "a">>
    /\ \E i \in 1..Len(regs) : regs[i].pattern = <<"/", "a", "/">>
    /\ InvokedTerminatorPatterns = {<<"/", "a">>}

-----------------------------------------------------------------------------
(* Router: handlers of several methods on one node, requests of each method *)

NextMethod ==
    \/ \E method \in {"GET", "POST", "HEAD", ALL, MIDDLEWARE} :
          AddMiddleware(method, <<"/", "a">>, 0, 1)
    \/ \E method \in {"GET", "POST", "HEAD", ALL} :
          AddTerminator(method, <<"/", "a">>, 0, 1)
    \/ \E method \in {"GET", "POST", "HEAD"} : Dispatch(method, <<"/", "a">>, NoParams)
    \/ RunnerPull
    \/ HandlerCallsNext
    \/ HandlerReturns
    \/ Unwind
    \/ Complete
    \/ Reset

SpecMethod == Construct({FALSE}) /\ [][NextMethod]_vars

\* The methods whose handlers a request may invoke on a node
AllowedMethods(node) ==
    {ctx.method, ALL, MIDDLEWARE}
        \cup (IF ctx.method = "HEAD" /\ Terminators(node, "HEAD") = <<>>
              THEN {"GET"} ELSE {})

\* The node has a terminator the request can end at
MatchesMethod(node) ==
    \E method \in AllowedMethods(node) \ {MIDDLEWARE} : Terminators(node, method) # <<>>

\* C27: in a dispatch for the request method M the only methods whose handlers
\* can be invoked are M, ALL, MIDDLEWARE, and GET when M is HEAD and the final
\* node has no HEAD terminators; a handler registered only for another method
\* is never invoked, and a path with terminators only for other methods does
\* not match: nothing but its MIDDLEWARE middleware runs and the outer next is
\* reached.
C27_MethodIsolation ==
    /\ \A i \in 1..Len(log) :
          RegistrationOf(log[i].h).method \in AllowedMethods(visited[log[i].visit].node)
    /\ \A k \in 1..Len(visited) :
          ~MatchesMethod(visited[k].node) =>
              /\ ~visited[k].final
              /\ \A i \in 1..Len(log) :
                    log[i].visit = k =>
                        /\ RegistrationOf(log[i].h).method = MIDDLEWARE
                        /\ RegistrationOf(log[i].h).op = "addMiddleware"
              /\ (phase = "done" /\ ~stopped) => outerNext # <<>>

\* A POST request on a node with GET middleware and a GET terminator only is
\* over and reached the outer next without invoking anything
C27_Witness ==
    /\ phase = "done"
    /\ ctx.method = "POST"
    /\ \E k \in 1..Len(visited) :
          /\ Terminators(visited[k].node, "GET") # <<>>
          /\ Middleware(visited[k].node, "GET") # <<>>
          /\ ~MatchesMethod(visited[k].node)
    /\ log = <<>>
    /\ outerNext # <<>>

-----------------------------------------------------------------------------
(* Router: the verb helpers on one pattern                                  *)

HelperPath == <<"/", "a">>

NextHelper ==
    \/ \E helper \in Helpers, count \in {1, 3} : HelperWithStage(helper, HelperPath, 1, count)
    \/ \E helper \in Helpers, count \in {1, 3} : HelperWithoutStage(helper, HelperPath, count)

SpecHelper == Construct({FALSE}) /\ [][NextHelper]_vars

\* The stage a helper call asked for: the number given, 0 if none was
AskedStage(reg) == IF reg.stage.type = "number" THEN reg.stage.value ELSE 0

\* The helper calls made so far for a method
HelperCalls(method) == {i \in 1..Len(regs) : regs[i].method = method}

\* The <<stage, handler>> pairs a StagedArray holds
StagedPairs(sa) == {sa.stagedData[i] : i \in 1..Len(sa.stagedData)}

\* The methods a helper can register for, and the special ones
AllMethods == {HelperMethod(helper) : helper \in Helpers} \cup {MIDDLEWARE}

MethodDataOf(node, method) ==
    IF HasMethodData(nodes[node].data, method) THEN nodes[node].data.methodData[method]
    ELSE NewMethodData

\* C28: each verb helper (all, connect, delete/del, get, head, options, patch,
\* post, put, trace) called with n >= 1 handlers and an optional stage s
\* (default 0) appends the first n-1 handlers to the method's middleware and
\* the last handler to the method's terminators, all at stage s, on the node
\* of the pattern, and touches no other bucket.
C28_HelperRegisters ==
    regs # <<>> =>
        /\ \A method \in AllMethods :
              /\ StagedPairs(MethodDataOf(regs[1].node, method).middleware) =
                    UNION {{<<AskedStage(regs[i]), regs[i].handlers[j]>> :
                                j \in 1..(Len(regs[i].handlers) - 1)} :
                           i \in HelperCalls(method)}
              /\ StagedPairs(MethodDataOf(regs[1].node, method).terminators) =
                    {<<AskedStage(regs[i]), regs[i].handlers[Len(regs[i].handlers)]>> :
                        i \in HelperCalls(method)}
              /\ Len(Middleware(regs[1].node, method))
                    = Cardinality(Members(Middleware(regs[1].node, method)))
              /\ Len(Terminators(regs[1].node, method)) = Cardinality(HelperCalls(method))
        /\ \A i \in 1..Len(regs) :
              /\ regs[i].ok
              /\ regs[i].node = regs[1].node
              /\ Len(regs[i].handlers) = 3 =>
                    \E a, b \in 1..Len(Middleware(regs[1].node, regs[i].method)) :
                        /\ a < b
                        /\ Middleware(regs[1].node, regs[i].method)[a] = regs[i].handlers[1]
                        /\ Middleware(regs[1].node, regs[i].method)[b] = regs[i].handlers[2]
        /\ \A n \in 1..Len(nodes) :
              /\ nodes[n].data.lateParams = EmptyStagedArray
              /\ n # regs[1].node => nodes[n].data.methodData = <<>>

\* del was called with a stage and three handlers, then delete with one
\* handler and no stage: the DELETE middleware holds the first two, the DELETE
\* terminators the third and the fourth
C28_Witness ==
    /\ Len(regs) = 2
    /\ regs[1].op = "del" /\ regs[1].stage.type = "number" /\ Len(regs[1].handlers) = 3
    /\ regs[2].op = "delete" /\ regs[2].stage.type = "undefined"
    /\ Middleware(regs[1].node, "DELETE") = <<1, 2>>
    /\ Terminators(regs[1].node, "DELETE") = <<4, 3>>

-----------------------------------------------------------------------------
(* Router: use() with and without the wildcard, with and without a stage   *)

UsePaths ==
    { <<"/">>, <<"/", "*">>, <<"/", "a">>, <<"/", "a", "*">>, <<"/", "a", "*", "*">>,
      <<"/", ":", "i", "*">> }

NextUse ==
    \/ \E path \in UsePaths, stage \in {-1, 1}, count \in {1, 2} : Use(path, stage, count)
    \/ \E path \in UsePaths, count \in {1, 2} : UseWithoutStage(path, count)

SpecUse == Construct({FALSE}) /\ [][NextUse]_vars

\* The path with one trailing '*' taken off
WithoutStar(path) ==
    IF path[Len(path)] = "*" THEN SubSeq(path, 1, Len(path) - 1) ELSE path

\* The <<stage, handler>> pairs the use() calls made so far ask to be held at
\* pattern, as immediate middleware (wildcard) or not: the stage is the one
\* given, 0 if none was
UsePairs(pattern, wildcard) ==
    UNION {{<<IF regs[i].op = "use" THEN regs[i].stage ELSE 0, regs[i].handlers[j]>> :
                j \in 1..Len(regs[i].handlers)} :
           i \in {k \in 1..Len(regs) :
                    /\ WithoutStar(regs[k].path) = pattern
                    /\ (regs[k].path[Len(regs[k].path)] = "*") = wildcard}}

\* C29: use(path, [stage], handlers...): when path ends with '*', all handlers
\* are appended to the MIDDLEWARE middleware (immediate) of the pattern with
\* that one trailing '*' removed; otherwise all handlers are appended to the
\* MIDDLEWARE terminators of the pattern; in both cases at the given stage
\* (default 0).
C29_UseRegisters ==
    /\ \A path \in UsePaths :
          LET g == getNode(nodes, WithoutStar(path), FALSE)
          IN  IF g.node = 0
              THEN UsePairs(WithoutStar(path), TRUE) \cup UsePairs(WithoutStar(path), FALSE) = {}
              ELSE /\ StagedPairs(MethodDataOf(g.node, MIDDLEWARE).middleware)
                        = UsePairs(WithoutStar(path), TRUE)
                   /\ StagedPairs(MethodDataOf(g.node, MIDDLEWARE).terminators)
                        = UsePairs(WithoutStar(path), FALSE)
    /\ \A n \in 1..Len(nodes) :
          /\ DOMAIN nodes[n].data.methodData \subseteq {MIDDLEWARE}
          /\ \A k \in 1..Len(orderedData(nodes[n].data.lateParams)) :
                DOMAIN nodes[orderedData(nodes[n].data.lateParams)[k].rootNode]
                            .data.methodData \subseteq {MIDDLEWARE}
    /\ \A i \in 1..Len(regs) : regs[i].ok

\* use('/a**') was called without a stage and with two handlers, use('/a*') with
\* a stage, and use('/a') without: the node of '/a*' and the node of '/a' hold
\* them as the claim says
C29_Witness ==
    /\ Len(regs) = 3
    /\ regs[1].path = <<"/", "a", "*", "*">> /\ regs[1].op = "use without stage"
    /\ Len(regs[1].handlers) = 2
    /\ regs[2].path = <<"/", "a", "*">> /\ regs[2].op = "use"
    /\ regs[3].path = <<"/", "a">> /\ regs[3].op = "use without stage"
    /\ Middleware(getNode(nodes, <<"/", "a", "*">>, FALSE).node, MIDDLEWARE) = regs[1].handlers
    /\ Middleware(getNode(nodes, <<"/", "a">>, FALSE).node, MIDDLEWARE) = regs[2].handlers
    /\ Terminators(getNode(nodes, <<"/", "a">>, FALSE).node, MIDDLEWARE) = regs[3].handlers

-----------------------------------------------------------------------------
(* Router: registration calls that must fail, among calls that succeed      *)

\* No leading slash; a parameter at the start; two adjacent parameters; an
\* unterminated and an empty regex; a match-all parameter followed by path
FailPaths ==
    { <<"a">>, <<":", "i">>, <<"/", ":", "i", ":", "j">>, <<"/", ":", "i", "(">>,
      <<"/", ":", "i", "(", ")">>, <<"/", ":", "i", "*", "x">> }

GoodPaths == { <<"/", "a">>, <<"/", ":", "i", "/", "b">> }

NextFail ==
    \/ \E path \in FailPaths \cup GoodPaths : AddMiddleware("GET", path, 0, 1)
    \/ \E path \in FailPaths \cup GoodPaths : AddTerminator("GET", path, 0, 1)
    \/ \E path \in FailPaths \cup GoodPaths : Use(path, 0, 1)
    \/ \E path \in FailPaths \cup GoodPaths, count \in {0, 2} :
          HelperWithStage("get", path, 1, count)
    \/ \E path \in FailPaths \cup GoodPaths, count \in {0, 1} :
          HelperWithoutStage("get", path, count)

SpecFail == Construct({FALSE}) /\ [][NextFail]_vars

\* The call must fail: its path does not start with '/', the parser rejects its
\* pattern, or it is a verb helper called with no handlers
MustFail(reg) ==
    \/ reg.path[1] # "/"
    \/ ~parsePath(reg.pattern).ok
    \/ reg.op \in Helpers /\ reg.handlers = <<>>

\* C30: a registration call that fails leaves the router unchanged: when the
\* path does not start with '/', when the parser rejects the pattern, or when a
\* verb helper is called with zero handlers, an error is raised and no node,
\* parameter branch, method bucket or handler has been added.
C30_FailedCallAddsNothing ==
    [][Len(regs') = Len(regs) + 1 =>
          /\ MustFail(regs'[Len(regs')]) => (~regs'[Len(regs')].ok /\ nodes' = nodes)
          /\ ~regs'[Len(regs')].ok => nodes' = nodes]_vars

-----------------------------------------------------------------------------
(* Node alone: the shape of the tree after findOrCreateNode calls           *)

\* A node that a split put in the place of a child: it is no root and has the
\* trimmed old child and the new node as its children
IsBranchNode(n) == n # rootNode /\ Len(nodes[n].children) = 2

\* C31: after any sequence of findOrCreateNode calls with non-empty paths, no
\* node has an empty label: neither a new child, nor the old child whose label
\* a split trimmed, nor the intermediate node the split created.
C31_NoEmptyLabel ==
    \A n \in 1..Len(nodes) : Len(nodes[n].segment) > 0

C31_Witness ==
    \E n \in 1..Len(nodes) :
        /\ IsBranchNode(n)
        /\ Len(nodes[nodes[n].children[1]].segment) > 0
        /\ Len(nodes[nodes[n].children[2]].segment) > 0

\* The places (parent, index) of the children lists that hold node n
PlacesOf(n) ==
    {pi \in (1..Len(nodes)) \X (1..Len(nodes)) :
        pi[2] <= Len(nodes[pi[1]].children) /\ nodes[pi[1]].children[pi[2]] = n}

\* The nodes reached from node n by walking labels whose concatenation is path
RECURSIVE ReachedBy(_, _)
ReachedBy(n, path) ==
    IF path = <<>> THEN {n}
    ELSE UNION {ReachedBy(nodes[n].children[i], Substr(path, Len(nodes[nodes[n].children[i]].segment))) :
                i \in {j \in 1..Len(nodes[n].children) :
                          StartsWith(path, nodes[nodes[n].children[j]].segment)}}

\* The path strings that are looked at: the prefixes of the paths that were created
TreePaths == UNION {{SubSeq(p, 1, k) : k \in 1..Len(p)} : p \in NodePaths}

\* C32: after any sequence of findOrCreateNode calls the structure is a tree:
\* every node other than the root is held exactly once, by exactly one node,
\* and for every path string at most one node is reached by walking labels
\* whose concatenation is that string.
C32_IsTree ==
    /\ \A n \in 2..Len(nodes) : Cardinality(PlacesOf(n)) = 1
    /\ \A p \in TreePaths : Cardinality(ReachedBy(rootNode, p)) <= 1

-----------------------------------------------------------------------------
(* Router: patterns whose parameter differs in name, stage, regex or "*"    *)

ReusePatterns ==
    { <<"/", ":", "i">>, <<"/", ":", "i", "$", "1">>, <<"/", ":", "i", "$", "-", "1">>,
      <<"/", ":", "j", "$", "-", "1">>, <<"/", ":", "i", "*">>,
      <<"/", ":", "i", "(", "\\", "d", "+", ")">>,
      <<"/", ":", "i", "$", "1", "(", "\\", "d", "+", ")">> }

NextReuse == \E path \in ReusePatterns : AddTerminator("GET", path, 0, 1)

SpecReuse == Construct({FALSE}) /\ [][NextReuse]_vars

\* The three fields getNode compares of a parameter branch
BranchKey(b) == <<b.name, b.matchAll, b.regex>>

\* The [stage, branch] tuples of node n in the heap ns
BranchesOf(ns, n) == ns[n].data.lateParams.stagedData

NoTwinBranches(ns) ==
    \A n \in 1..Len(ns) :
        \A i, j \in 1..Len(BranchesOf(ns, n)) :
            i # j => BranchKey(BranchesOf(ns, n)[i][2]) # BranchKey(BranchesOf(ns, n)[j][2])

\* The tuples of old are, in new, all there with their stage and in their order
BranchesKept(old, new) ==
    LET IsOld(t) == \E k \in 1..Len(old) : old[k] = t
    IN  SelectSeq(new, IsOld) = old

\* What holds of a registration of the pattern "/" + parameter info that found
\* the node slash for "/": if a branch of slash has the key of info, the
\* handlers went to the root of that branch and no node or branch was made
BranchReused(slash, info, reg) ==
    \A k \in 1..Len(BranchesOf(nodes, slash)) :
        BranchKey(BranchesOf(nodes, slash)[k][2]) = BranchKey(info) =>
            /\ reg.node = BranchesOf(nodes, slash)[k][2].rootNode
            /\ Len(nodes') = Len(nodes)
            /\ BranchesOf(nodes', slash) = BranchesOf(nodes, slash)

\* C33: after any sequence of registrations no node holds two parameter
\* branches with the same name, matchAll and regex source: a pattern whose
\* parameter equals an existing branch in these fields reuses the branch and
\* its sub-tree even when the declared stage differs, and every existing branch
\* keeps its stage and its place among the branches.
C33_BranchReused ==
    [][Len(regs') = Len(regs) + 1 =>
          /\ NoTwinBranches(nodes')
          /\ \A n \in 1..Len(nodes) : BranchesKept(BranchesOf(nodes, n), BranchesOf(nodes', n))
          /\ find(nodes, rootNode, <<"/">>) # 0 =>
                BranchReused(find(nodes, rootNode, <<"/">>),
                             parsePath(regs'[Len(regs')].pattern).segments[2].info,
                             regs'[Len(regs')])]_vars

\* C33 happens: /:i then /:i$1 were registered, both at the root of the one
\* branch i, which kept stage 0
C33_Witness ==
    /\ Len(regs) = 2
    /\ regs[1].pattern = <<"/", ":", "i">>
    /\ regs[2].pattern = <<"/", ":", "i", "$", "1">>
    /\ regs[1].node = regs[2].node
    /\ \E n \in 1..Len(nodes) :
          /\ Len(BranchesOf(nodes, n)) = 1
          /\ BranchesOf(nodes, n)[1][1] = 0
          /\ BranchesOf(nodes, n)[1][2].rootNode = regs[2].node
          /\ Len(Terminators(regs[2].node, "GET")) = 2

-----------------------------------------------------------------------------
(* Router: what a dispatch leaves of the router                             *)

\* C34: a dispatch never modifies the router: over every step that is no
\* registration call (the start of a dispatch, each pull of the generator, each
\* handler invoked, returning or not calling next, the unwinding and the end)
\* the radix tree, every method bucket, every StagedArray and every list of
\* parameter branches are what they were; the lookups create no bucket.
C34_DispatchLeavesRouter ==
    [][(regs' = regs /\ created' = created) =>
          (nodes' = nodes /\ strictSlashes' = strictSlashes)]_vars

\* C34 happens: a HEAD request ran to its end with handlers invoked at a final
\* node that has no bucket for HEAD, and has none afterwards
C34_Witness ==
    /\ phase = "done"
    /\ ctx.method = "HEAD"
    /\ log # <<>>
    /\ \E k \in 1..Len(visited) :
          /\ visited[k].final
          /\ ~HasMethodData(nodes[visited[k].node].data, "HEAD")
          /\ HasMethodData(nodes[visited[k].node].data, "GET")

-----------------------------------------------------------------------------
(* Router: two calls of the router's middleware in flight, each with its ctx *)

TwoRequests == { <<"/", "1">>, <<"/", "a">> }

\* The registrations come first: none is made while a call is in flight
NextTwo ==
    \/ other.phase = "idle" /\ Use(<<"/">>, 0, 1)
    \/ other.phase = "idle" /\ AddMiddleware(MIDDLEWARE, <<"/">>, 0, 1)
    \/ other.phase = "idle"
          /\ \E path \in {<<"/", ":", "i">>, <<"/", "a">>} : AddTerminator("GET", path, 0, 1)
    \/ \E path \in TwoRequests : Dispatch("GET", path, NoParams)
    \/ RunnerPull
    \/ HandlerCallsNext
    \/ HandlerReturns
    \/ Unwind
    \/ Complete
    \/ Reset
    \/ Switch

SpecTwo == Construct({FALSE}) /\ [][NextTwo]_vars

\* What a call of the router's middleware that runs alone invokes when every
\* handler calls next: the handlers in order, each with the ctx.params it sees.
\* r is what the generator g gives when it is pulled.
RECURSIVE AloneFrom(_, _, _, _, _)
AloneStep(ns, r, method, strict, params) ==
    CASE r.kind = "yield" ->
            [i \in 1..Len(r.group) |-> [h |-> r.group[i], params |-> params]]
            \o AloneFrom(ns, r.g, method, strict, params)
      [] r.kind = "param" ->
            AloneFrom(ns,
                NewGenerator(ns,
                    orderedData(ns[r.g.current.node].data.lateParams)[r.param].rootNode,
                    Substr(r.g.current.remainingPath, Len(r.value)), r.g.depth + 1),
                method, strict,
                SetParam(params,
                    orderedData(ns[r.g.current.node].data.lateParams)[r.param].name,
                    r.value))
      [] OTHER -> <<>>

AloneFrom(ns, g, method, strict, params) ==
    AloneStep(ns, GenResume(ns, g, method, strict, <<>>), method, strict, params)

\* The same for the request of the context c
Alone(c) ==
    AloneFrom(nodes, NewGenerator(nodes, rootNode, c.path, 1), c.method, strictSlashes,
              c.before.params)

\* The invocations lg of a call in the phase ph are those of the call alone, as
\* far as it got: handler by handler with the same ctx.params, ending only where
\* a handler did not call next, and complete when all did
AsAlone(ph, lg, alone) ==
    /\ Len(lg) <= Len(alone)
    /\ \A i \in 1..Len(lg) :
          /\ lg[i].h = alone[i].h
          /\ lg[i].params = alone[i].params
          /\ i < Len(lg) => lg[i].next
    /\ (ph = "done" /\ \A i \in 1..Len(lg) : lg[i].next) => Len(lg) = Len(alone)

\* C35: two calls of the router's middleware with distinct ctx objects,
\* interleaved in any way at their awaits with no registration in between, each
\* invoke the handlers and see the parameter values they would when run alone:
\* neither the terminators one has collected nor where its walk stands is seen
\* by the other.
C35_InterleavedAsAlone ==
    /\ phase # "idle" => AsAlone(phase, log, Alone(ctx))
    /\ other.phase # "idle" => AsAlone(other.phase, other.log, Alone(other.ctx))

\* C35 happens: both calls are in flight, each has invoked a handler, one has
\* bound i = 1 and the other holds the terminators it collected on its walk
C35_Witness ==
    /\ phase = "running"
    /\ other.phase = "running"
    /\ ctx.path = <<"/", "1">>
    /\ other.ctx.path = <<"/", "a">>
    /\ \E i \in 1..Len(log) : GetParam(log[i].params, <<"i">>) = <<"1">>
    /\ other.log # <<>>
    /\ other.gens[1].terminatorMiddleware # <<>>

-----------------------------------------------------------------------------
(* Router: parameters whose regex matches the empty string; every handler   *)
(* that is invoked returns, every await is resumed                          *)

EmptyPatterns ==
    { <<"/", ":", "i", "(", ".", "*", ")">>,                                   \* /:i(.*)
      <<"/", ":", "i", "(", ".", "*", ")", ":", "j", "(", ".", "*", ")">>,     \* /:i(.*):j(.*)
      <<"/", ":", "i", "(", ".", "*", ")", "/", "a">> }                        \* /:i(.*)/a

EmptyRequests == { <<"/">>, <<"/", "x">>, <<"/", "/", "a">> }

NextEmpty ==
    \/ \E path \in EmptyPatterns : AddTerminator("GET", path, 0, 1)
    \/ Use(<<"/">>, 0, 1)
    \/ \E path \in EmptyRequests : Dispatch("GET", path, NoParams)
    \/ RunnerPull
    \/ HandlerCallsNext
    \/ HandlerReturns
    \/ Unwind
    \/ Complete
    \/ Reset

\* The event loop resumes every await, and a handler that is invoked returns:
\* after calling next, or without
SpecEmpty ==
    /\ Construct({FALSE})
    /\ [][NextEmpty]_vars
    /\ WF_vars(RunnerPull)
    /\ WF_vars(HandlerCallsNext \/ HandlerReturns)
    /\ WF_vars(Unwind)
    /\ WF_vars(Complete)

\* C36: every dispatch terminates provided each invoked handler returns: the
\* walk and the sub-dispatches of the parameters come, after finitely many
\* steps, to a handler that does not call next or to the outer next, and the
\* call returns, also when the regex of a parameter captures the empty string
\* and the sub-tree is dispatched with the remaining path unchanged.
C36_DispatchTerminates ==
    (phase = "running") ~> (phase = "done" /\ (stopped \/ outerNext # <<>>))

\* C36 happens: a dispatch came to its end after i and j both captured the
\* empty string, each sub-tree having been given the remaining path as it was
C36_Witness ==
    /\ phase = "done"
    /\ \E k \in 1..Len(log) :
          /\ GetParam(log[k].params, <<"i">>) = <<>>
          /\ GetParam(log[k].params, <<"j">>) = <<>>
    /\ \E k \in 1..Len(visited) : visited[k].depth = 3

-----------------------------------------------------------------------------
(* Node alone: nodeIterator next to findAll and find                        *)

\* The items a nodeIterator in the state st yields when next() is called
\* without a value until it is done
RECURSIVE IterYields(_, _, _)
IterYields(ns, st, yields) ==
    IF nodeIteratorNext(ns, st, Undefined).done THEN yields
    ELSE IterYields(ns, nodeIteratorNext(ns, st, Undefined).state,
                    Append(yields, Result(nodeIteratorNext(ns, st, Undefined))))

\* [...this.nodeIterator(path)]
Yields(ns, this, path) == IterYields(ns, nodeIterator(this, path), <<>>)

\* The paths that are walked: those created, their prefixes, and paths that
\* leave the tree at its root, in a label or after a leaf
WalkPaths ==
    TreePaths \cup { <<>>, <<"x">>, <<"/", "x">>, <<"/", "a", "x">>, <<"/", "a", "a", "b">> }

\* The labels of the nodes ys[2..] one after the other
RECURSIVE LabelsFrom(_, _)
LabelsFrom(ys, k) ==
    IF k > Len(ys) THEN <<>> ELSE nodes[ys[k].node].segment \o LabelsFrom(ys, k + 1)

\* What holds of the items ys yielded for path, all being what findAll(path)
\* returned (found FALSE for null) and chain the nodes its walk went through
WalkIsFindAll(path, ys, all, chain) ==
    /\ Len(ys) >= 1
    /\ ys[1].node = rootNode /\ ys[1].remainingPath = path /\ ~ys[1].done
    /\ LabelsFrom(ys, 2) \o ys[Len(ys)].remainingPath = path
    /\ [k \in 1..Len(ys) |-> ys[k].node] = chain
    /\ all.found => [k \in 1..Len(ys) |-> ys[k].node] = all.output

\* C37: nodeIterator(path), when nothing is sent to it, yields the start node
\* with path first and then one item per descent into a child; the labels of
\* the nodes after the first, followed by the remaining path yielded last, make
\* up path; the nodes yielded are the chain findAll follows, and are
\* findAll(path) whenever find(path) is not null.
C37_WalkIsFindAll ==
    \A path \in WalkPaths :
        WalkIsFindAll(path, Yields(nodes, rootNode, path),
                      findAll(nodes, rootNode, path, FALSE),
                      IF path = <<>> THEN <<rootNode>>
                      ELSE FindWalk(nodes, rootNode, path, <<rootNode>>).output)

\* C37 happens: /ab is found after a split, three nodes deep, and the walk
\* yields these nodes; /ax leaves the tree below the branch node
C37_Witness ==
    /\ find(nodes, rootNode, <<"/", "a", "b">>) # 0
    /\ Len(Yields(nodes, rootNode, <<"/", "a", "b">>)) = 3
    /\ find(nodes, rootNode, <<"/", "a", "x">>) = 0
    /\ Len(Yields(nodes, rootNode, <<"/", "a", "x">>)) = 2

\* The nodeIterator in the state st after k calls of next() without a value
RECURSIVE StateAfter(_, _, _)
StateAfter(ns, st, k) ==
    IF k = 0 THEN st ELSE StateAfter(ns, nodeIteratorNext(ns, st, Undefined).state, k - 1)

\* The items that follow when r is what next(sent) gave
ItemsFrom(ns, r) ==
    IF r.done THEN <<>> ELSE IterYields(ns, r.state, <<Result(r)>>)

\* The items nodeIterator(path) yields after its k-th item was answered with sent
AfterSent(ns, this, path, k, sent) ==
    ItemsFrom(ns, nodeIteratorNext(ns, StateAfter(ns, nodeIterator(this, path), k), sent))

\* The replacement paths handed back
Replacements == { <<>>, <<"a">>, <<"b">>, <<"/", "a">>, <<"x">> }

\* C38: at every yield of nodeIterator, the first included, a replacement
\* remaining path handed back by the caller (any string, the empty one too) is
\* used for the rest of the walk as if it were the path supplied at that node;
\* handing back the empty string ends the walk.
C38_ReplacementUsed ==
    \A path \in WalkPaths :
        \A k \in 1..Len(Yields(nodes, rootNode, path)) :
            \A sent \in Replacements :
                /\ AfterSent(nodes, rootNode, path, k, sent)
                      = Tail(Yields(nodes, Yields(nodes, rootNode, path)[k].node, sent))
                /\ sent = <<>> => AfterSent(nodes, rootNode, path, k, sent) = <<>>

\* C39: find(path) and findAll(path) without createIfNone never modify the
\* tree: whether a node or null is returned, the nodes, their labels and their
\* children lists are what they were; find('') returns the node it is called on.
C39_FindLeavesTree ==
    /\ \A n \in 1..Len(nodes) :
          \A path \in WalkPaths : findAll(nodes, n, path, FALSE).ns = nodes
    /\ \A n \in 1..Len(nodes) : find(nodes, n, <<>>) = n

\* C39 happens: in a tree with a split, find returns a node for /ab and null
\* for /ax and for /, which ends inside a label
C39_Witness ==
    /\ \E n \in 1..Len(nodes) : IsBranchNode(n)
    /\ find(nodes, rootNode, <<"/", "a", "b">>) # 0
    /\ find(nodes, rootNode, <<"/", "a", "x">>) = 0
    /\ find(nodes, rootNode, <<"/">>) = 0
    /\ find(nodes, 2, <<>>) = 2

=============================================================================
